---- MODULE Spec2Model ----
(***************************************************************************)
(* The streaming recognizer of nemotron_lib (Nemotron in nemotron.rs) as a *)
(* state machine.                                                          *)
(*                                                                         *)
(* Audio is modelled by position: the samples fed since the last reset are *)
(* numbered 0, 1, 2, ... and the audio buffer is the interval of the       *)
(* stream it holds.  A mel frame is modelled by what it is computed from   *)
(* (the stream samples under its window and the zero padding on either     *)
(* side), so two frames are equal exactly when the code computes them from *)
(* the same data.  The two ONNX graphs are opaque: each invocation either  *)
(* fails or returns, what it returns is drawn from small sets, and the     *)
(* tensors a graph hands back (encoder cache, predictor state) are modelled*)
(* by the inputs they were computed from.                                  *)
(***************************************************************************)
EXTENDS Integers, Sequences, FiniteSets, TLC

VARIABLES
    vocab,              \* SentencePieceVocab.pieces
    encoder_cache,      \* the encoder invocations the cache was computed from
    state_1,            \* predictor state: the targets it was computed from
    state_2,
    last_token,
    audio_buffer,       \* [first, len]: stream samples first .. first+len-1
    audio_processed,
    chunk_idx,
    accumulated_tokens,
    chunk_size,
    calls,              \* public operations performed so far
    last,               \* the last public operation and what it returned
    pre,                \* the recognizer's fields before the last operation
    fed,                \* lengths of the blocks fed since construction or reset
    clean,              \* no call failed and no offline pass ran since then
    deltas,             \* the Ok results of transcribe_chunk since the last
                        \* reset, concatenated
    tdt,                \* the last decode_with_timestamps call: its tokens
                        \* and its result
    model_file,         \* the fields of the tokenizer model file
    loaded,             \* << >>, or the result of loading model_file
    signal,             \* number of samples of the signal given to the STFTs
    center_frames,      \* << >>, or the frame count of stft_center
    offline_frames,     \* << >>, or the frame count of audio::stft
    IS_LOADING,         \* engine.rs: the loading flag
    GLOBAL_ENGINE,      \* engine.rs: << >> (None) or the installed engines
    init_pc,            \* position of each initializer thread
    init_status,        \* the last status each initializer thread reported
    installed,          \* the threads whose engine set_engine has installed
    engine_lock,        \* the thread holding the engine's mutex, or << >>
    engine_ops,         \* the recognizer operations made so far, in order
    is_streaming,       \* ImeState.is_streaming
    ime_stream,         \* ImeState.stream is Some
    ime_buffer,         \* ImeState.audio_buffer, in chunks
    ime_pc,             \* position of each recording worker
    sub_pc,             \* position of the subtitle worker
    cleanup_pc,         \* position of the subtitle service's cleanupNative
    queue,              \* LiveSubtitleState.buffer: runs of captured samples
    captured,           \* samples pushed so far
    pushes,             \* pushAudio calls so far
    ready,              \* ready_chunks of each pushAudio call in progress
    channel,            \* the chunks sent to the subtitle worker, in order
    aggregated_text,    \* the subtitle worker's aggregated_text
    sent_text,          \* << >>, or the text of the last onSubtitleText
    all_deltas          \* the Ok results of the worker's transcribe_chunk
                        \* calls, concatenated

\* The variables of the vocabulary loader, of the two STFTs and of the host
\* application; the recognizer's operations leave them alone.
loaderVars == <<model_file, loaded>>
stftVars == <<signal, center_frames, offline_frames>>
initVars == <<IS_LOADING, GLOBAL_ENGINE, init_pc, init_status, installed>>
workerVars == <<engine_lock, engine_ops, is_streaming, ime_stream,
                ime_buffer, ime_pc, sub_pc, cleanup_pc>>
queueVars == <<queue, captured, pushes, ready, channel>>
textVars == <<aggregated_text, sent_text, all_deltas>>
hostVars == <<initVars, workerVars, queueVars, textVars>>

\* The recognizer's fields and the record of its calls.
recognizerVars ==
    <<vocab, encoder_cache, state_1, state_2, last_token, audio_buffer,
      audio_processed, chunk_idx, accumulated_tokens, chunk_size,
      calls, last, pre, fed, clean, deltas, tdt>>

vars == <<recognizerVars, loaderVars, stftVars, hostVars>>

\* What the initializer threads leave alone, and what the workers do.
outsideInit ==
    <<recognizerVars, loaderVars, stftVars, workerVars, queueVars, textVars>>
outsideWorkers ==
    <<recognizerVars, loaderVars, stftVars, initVars, queueVars, textVars>>
outsideQueue ==
    <<recognizerVars, loaderVars, stftVars, initVars, workerVars, textVars>>
outsideText ==
    <<recognizerVars, loaderVars, stftVars, initVars, workerVars, queueVars>>

---------------------------------------------------------------------------
(* Program constants *)

SAMPLE_RATE == 16000
N_FFT == 512
WIN_LENGTH == 400
HOP_LENGTH == 160
VOCAB_SIZE == 1024
BLANK_ID == 1024
DEFAULT_CHUNK_SIZE == 56
PRE_ENCODE_CACHE == 9
max_symbols_per_step == 10
\* subtitle.rs: DEFAULT_CHUNK_SIZE (in samples), BUFFER_MULTIPLIER,
\* MAX_DISPLAY_CHARS.
SUBTITLE_CHUNK_SIZE == 8960
BUFFER_MULTIPLIER == 12
MAX_DISPLAY_CHARS == 900

(* Bounds of the model *)

MaxCalls == 3
MaxEncFrames == 2
MaxStreamChunks == 6
MaxTokens == 4
\* Fields in a tokenizer model file, samples in a signal given to the
\* STFTs, initNative calls.
MaxFields == 3
MaxSamples == 400
NumInitThreads == 3
InitThreads == 1..NumInitThreads
\* Recording workers alive at a time, chunks the capture buffer holds,
\* recognizer operations in a run.
MaxWorkers == 2
MaxBuffered == 1
MaxOps == 4
ImeWorkers == 1..MaxWorkers
\* Threads calling pushAudio, pushAudio calls in a run, chunks the subtitle
\* worker receives in a run.
NumPushThreads == 2
MaxPushes == 3
MaxChunks == 3
PushThreads == 1..NumPushThreads

\* Chunks the subtitle worker transcribes.
MaxTexts == 5

Min(a, b) == IF a < b THEN a ELSE b
Max(a, b) == IF a > b THEN a ELSE b

---------------------------------------------------------------------------
(* Feature extractor *)

\* StftFrames of a signal that is not padded.
StftFramesUnpadded(n) ==
    IF n >= WIN_LENGTH THEN 1 + (n - WIN_LENGTH) \div HOP_LENGTH ELSE 0

\* stft_center: the number of frames of a signal of n samples.
StftFrames(n) ==
    LET padded == n + 2 * (N_FFT \div 2)
    IN  IF padded >= WIN_LENGTH
        THEN 1 + (padded - WIN_LENGTH) \div HOP_LENGTH
        ELSE 0

\* compute_mel_spectrogram: the number of columns of the log-mel matrix.
MelFrameCount(n) == IF n = 0 THEN 0 ELSE StftFrames(n)

\* A slot the chunk assembly leaves at 0.0.
ZeroSlot == [zero |-> TRUE, lo |-> 0, hi |-> 0, padL |-> 0, padR |-> 0, raw |-> FALSE]

\* Column t of compute_mel_spectrogram(buf): the window starts at index
\* t*HOP_LENGTH of the padded signal, which is index t*HOP_LENGTH - N_FFT/2 of
\* buf.  lo..hi-1 are the stream samples under the window, padL and padR the
\* zeros of the padding on each side, and raw says that the window holds the
\* first sample of buf, which pre-emphasis passes through unfiltered.
MelFrame(buf, t) ==
    LET s == t * HOP_LENGTH - N_FFT \div 2
    IN  [zero |-> FALSE,
         lo   |-> buf.first + Max(s, 0),
         hi   |-> buf.first + Min(s + WIN_LENGTH, buf.len),
         padL |-> Max(0 - s, 0),
         padR |-> Max(s + WIN_LENGTH - buf.len, 0),
         raw  |-> s <= 0]

---------------------------------------------------------------------------
(* Encoder driver: chunk assembly of transcribe_chunk *)

\* EncoderInput that takes the first-chunk branch for every chunk.
EncoderInputNoContext(buf, processed, cidx, csize) ==
    LET expected_size == PRE_ENCODE_CACHE + csize
        total_mel_frames == MelFrameCount(buf.len)
    IN  [i \in 1..expected_size |->
            LET f == i - 1 - PRE_ENCODE_CACHE
            IN  IF f >= 0 /\ f < Min(csize, total_mel_frames)
                THEN MelFrame(buf, f)
                ELSE ZeroSlot]

\* The mel tensor of one pump, slot by slot (1-based here, 0-based in the code).
EncoderInput(buf, processed, cidx, csize) ==
    LET expected_size == PRE_ENCODE_CACHE + csize
        total_mel_frames == MelFrameCount(buf.len)
        main_start == processed \div HOP_LENGTH
        cache_start == Max(main_start - PRE_ENCODE_CACHE, 0)
        cache_frames == main_start - cache_start
        cache_offset == PRE_ENCODE_CACHE - cache_frames
    IN  IF cidx = 0
        THEN [i \in 1..expected_size |->
                LET f == i - 1 - PRE_ENCODE_CACHE
                IN  IF f >= 0 /\ f < Min(csize, total_mel_frames)
                    THEN MelFrame(buf, f)
                    ELSE ZeroSlot]
        ELSE [i \in 1..expected_size |->
                LET j == i - 1
                IN  IF j >= cache_offset /\ j < PRE_ENCODE_CACHE
                    THEN MelFrame(buf, cache_start + (j - cache_offset))
                    ELSE IF j >= PRE_ENCODE_CACHE
                            /\ j - PRE_ENCODE_CACHE
                                 < Min(csize, total_mel_frames - main_start)
                         THEN MelFrame(buf, main_start + (j - PRE_ENCODE_CACHE))
                         ELSE ZeroSlot]

\* The mel tensor as run_encoder is given it.  The slots a chunk assembly fills
\* are adjacent and hold consecutive frames of one buffer, so the tensor is
\* determined by its size, the first and last filled slots and the frames in
\* these two: that is what is kept of it.
Features(mel_chunk) ==
    LET filled == {i \in DOMAIN mel_chunk : ~mel_chunk[i].zero}
        from == CHOOSE i \in filled : (i - 1) \notin filled
        to == CHOOSE i \in filled : (i + 1) \notin filled
    IN  IF filled = {}
        THEN [size |-> Len(mel_chunk), from |-> 0, to |-> 0,
              head |-> ZeroSlot, tail |-> ZeroSlot]
        ELSE [size |-> Len(mel_chunk), from |-> from, to |-> to,
              head |-> mel_chunk[from], tail |-> mel_chunk[to]]

\* NextCache that hands back the cache it was given.
NextCacheKept(cache, mel_chunk, length) == cache

\* The cache tensors run_encoder returns: a function of the features, the
\* length and the cache it was given.
NextCache(cache, mel_chunk, length) ==
    Append(cache, [features |-> Features(mel_chunk), length |-> length])

\* NemotronEncoderCache::with_dims: all zeros, cache length 0.
ZeroCache == << >>

---------------------------------------------------------------------------
(* RNN-T greedy decoder *)

\* The predictor state run_decoder returns: a function of the target token and
\* the state it was given.
NextState(state, target_token) == Append(state, target_token)

\* Array3::zeros((2, 1, DECODER_LSTM_DIM))
ZeroState == << >>

\* IsBlank with the blank taken to be the last vocabulary id.
IsBlankOffByOne(max_idx) == max_idx = VOCAB_SIZE - 1

\* decode_chunk, line 540: the test that ends the inner loop.
IsBlank(max_idx) == max_idx = BLANK_ID

\* CapReached that lets one more symbol through.
CapReachedOneLate(sym) == sym > max_symbols_per_step

\* decode_chunk, line 526: the inner loop has run max_symbols_per_step times.
CapReached(sym) == sym >= max_symbols_per_step

\* EmitToken that leaves state_2 as it was.
EmitTokenKeepsState2(acc, max_idx) ==
    [acc EXCEPT !.tokens = Append(@, max_idx),
                !.last_token = max_idx,
                !.state_1 = NextState(@, acc.last_token)]

\* decode_chunk, lines 544-547: a non-blank argmax is pushed, becomes
\* last_token, and the states run_decoder returned (computed from the previous
\* last_token and states) replace state_1 and state_2.
EmitToken(acc, max_idx) ==
    [acc EXCEPT !.tokens = Append(@, max_idx),
                !.last_token = max_idx,
                !.state_1 = NextState(@, acc.last_token),
                !.state_2 = NextState(@, acc.last_token)]

\* decode_chunk from encoder frame t and symbol sym on.  script is what the
\* decoder-joint answers, invocation after invocation (repeated when it runs
\* out): either an error or the argmax of the logits.  acc carries the tokens
\* decoded so far, the recognizer's last_token and predictor state, and the
\* number of decoder-joint invocations made.
RECURSIVE DecodeFrom(_, _, _, _, _)
DecodeFrom(acc, t, sym, enc_frames, script) ==
    IF t >= enc_frames THEN acc
    ELSE IF CapReached(sym)
    THEN DecodeFrom(acc, t + 1, 0, enc_frames, script)
    ELSE LET resp == script[(acc.runs % Len(script)) + 1]
             ran  == [acc EXCEPT !.runs = @ + 1]
         IN  IF ~resp.ok
             THEN [ran EXCEPT !.ok = FALSE]
             ELSE IF IsBlank(resp.argmax)
             THEN DecodeFrom(ran, t + 1, 0, enc_frames, script)
             ELSE DecodeFrom(EmitToken(ran, resp.argmax),
                             t, sym + 1, enc_frames, script)

\* decode_chunk on the recognizer r; runs is the number of decoder-joint
\* invocations made earlier in the same public call.
DecodeChunk(r, enc_frames, script, runs) ==
    DecodeFrom([ok |-> TRUE, tokens |-> << >>, last_token |-> r.last_token,
                state_1 |-> r.state_1, state_2 |-> r.state_2, runs |-> runs],
               0, 0, enc_frames, script)

---------------------------------------------------------------------------
(* Detokenizer of the recognizer (SentencePieceVocab) *)

\* U+2581, the word-boundary marker; a string is a sequence of characters.
WordBoundary == "U+2581"
Space == " "

\* ReplaceBoundary that replaces only a leading U+2581.
ReplaceLeadingBoundary(piece) ==
    [i \in 1..Len(piece) |->
        IF i = 1 /\ piece[i] = WordBoundary THEN Space ELSE piece[i]]

\* str::replace('\u{2581}', " ")
ReplaceBoundary(piece) ==
    [i \in 1..Len(piece) |-> IF piece[i] = WordBoundary THEN Space ELSE piece[i]]

\* decode_single that leaves U+2581 in place.
DecodeSingleVerbatim(pieces, id) ==
    IF id < Len(pieces) THEN pieces[id + 1] ELSE << >>

\* SentencePieceVocab::decode_single
DecodeSingle(pieces, id) ==
    IF id < Len(pieces) THEN ReplaceBoundary(pieces[id + 1]) ELSE << >>

\* The loop of SentencePieceVocab::decode: the pieces of the ids that have
\* one, each with its U+2581 replaced.
RECURSIVE ConcatPieces(_, _)
ConcatPieces(pieces, ids) ==
    IF ids = << >> THEN << >>
    ELSE (IF Head(ids) < Len(pieces)
          THEN ReplaceBoundary(pieces[Head(ids) + 1])
          ELSE << >>) \o ConcatPieces(pieces, Tail(ids))

\* str::trim_start
RECURSIVE TrimStart(_)
TrimStart(str) ==
    IF str # << >> /\ Head(str) = Space THEN TrimStart(Tail(str)) ELSE str

\* SentencePieceVocab::decode
Decode(pieces, ids) == TrimStart(ConcatPieces(pieces, ids))

\* .filter(|&t| t < VOCAB_SIZE)
ValidTokens(tokens) == SelectSeq(tokens, LAMBDA t : t < VOCAB_SIZE)

\* Nemotron::get_transcript
GetTranscript(r) == Decode(r.vocab, ValidTokens(r.accumulated_tokens))

\* transcribe_chunk, lines 505-511: the text a pump returns for its tokens.
RECURSIVE Delta(_, _)
Delta(pieces, tokens) ==
    IF tokens = << >> THEN << >>
    ELSE (IF Head(tokens) < VOCAB_SIZE
          THEN DecodeSingle(pieces, Head(tokens))
          ELSE << >>) \o Delta(pieces, Tail(tokens))

---------------------------------------------------------------------------
(* Detokenizer with timestamps (ParakeetTDTDecoder) *)

encoder_stride == 8

Digits == {"0", "1", "2", "3", "4", "5", "6", "7", "8", "9"}
Letters ==
    {"a", "b", "c", "d", "e", "f", "g", "h", "i", "j", "k", "l", "m", "n", "o",
     "p", "q", "r", "s", "t", "u", "v", "w", "x", "y", "z", "A", "I"}

\* char::is_ascii_digit and char::is_alphabetic, on the characters in use.
IsAsciiDigit(c) == c \in Digits
IsAlphabetic(c) == c \in Letters

\* Vocabulary::id_to_text: the piece of an id, if the vocabulary has one.
IdToText(id_to_token, token_id) ==
    IF token_id < Len(id_to_token)
    THEN [some |-> TRUE, text |-> id_to_token[token_id + 1]]
    ELSE [some |-> FALSE, text |-> << >>]

\* full_text.chars().rev().take_while(|c| c.is_alphabetic()).count()
RECURSIVE TrailingLetters(_)
TrailingLetters(full_text) ==
    IF full_text = << >> \/ ~IsAlphabetic(full_text[Len(full_text)])
    THEN 0
    ELSE 1 + TrailingLetters(SubSeq(full_text, 1, Len(full_text) - 1))

\* NeedsSpace that treats every single trailing letter as the article.
NeedsSpaceAfterAnyLetter(full_text, display_text) ==
    /\ full_text # << >>
    /\ ~(display_text # << >> /\ Head(display_text) = Space)
    /\ \A i \in 1..Len(display_text) : IsAsciiDigit(display_text[i])
    /\ TrailingLetters(full_text) >= 1

\* decode_with_timestamps, lines 48-59: whether a space is put before the
\* piece.
NeedsSpace(full_text, display_text) ==
    /\ full_text # << >>
    /\ ~(display_text # << >> /\ Head(display_text) = Space)
    /\ \A i \in 1..Len(display_text) : IsAsciiDigit(display_text[i])
    /\ LET trailing_letters == TrailingLetters(full_text)
           is_article_a == trailing_letters = 1
                            /\ full_text[Len(full_text)] = "a"
       IN  trailing_letters > 1 \/ is_article_a

Unk == <<"<", "u", "n", "k", ">">>

\* IsSpecialToken that takes <unk> for a special too.
IsSpecialTokenWithUnk(token_text) ==
    /\ token_text # << >>
    /\ Head(token_text) = "<"
    /\ token_text[Len(token_text)] = ">"

\* decode_with_timestamps, lines 65-67: the pieces that are skipped.
IsSpecialToken(token_text) ==
    /\ token_text # << >>
    /\ Head(token_text) = "<"
    /\ token_text[Len(token_text)] = ">"
    /\ token_text # Unk

\* str::trim, for the space.
RECURSIVE TrimEnd(_)
TrimEnd(str) ==
    IF str # << >> /\ str[Len(str)] = Space
    THEN TrimEnd(SubSeq(str, 1, Len(str) - 1))
    ELSE str

Trim(str) == TrimEnd(TrimStart(str))

\* The loop of decode_with_timestamps from token i (1-based) on.  Times are
\* kept in samples: the code divides them by sample_rate, and its 0.01 s is
\* sample_rate / 100 samples.
RECURSIVE TdtLoop(_, _, _, _, _, _, _)
TdtLoop(id_to_token, tokens, frame_indices, hop_length, sample_rate, i, acc) ==
    IF i > Len(tokens) THEN acc
    ELSE
    LET found == IdToText(id_to_token, tokens[i])
        token_text == found.text
        frame == frame_indices[i]
        start == frame * encoder_stride * hop_length
        end == IF i + 1 <= Len(frame_indices)
               THEN frame_indices[i + 1] * encoder_stride * hop_length
               ELSE start + sample_rate \div 100
        replaced == ReplaceBoundary(token_text)
        display_text == IF NeedsSpace(acc.full_text, replaced)
                        THEN <<Space>> \o replaced
                        ELSE replaced
        next == IF found.some /\ ~IsSpecialToken(token_text)
                THEN [full_text |-> acc.full_text \o display_text,
                      result_tokens |->
                          Append(acc.result_tokens,
                                 [text |-> display_text,
                                  start |-> start, end |-> end])]
                ELSE acc
    IN  TdtLoop(id_to_token, tokens, frame_indices, hop_length, sample_rate,
                i + 1, next)

\* ParakeetTDTDecoder::decode_with_timestamps
DecodeWithTimestamps(id_to_token, tokens, frame_indices, hop_length, sample_rate) ==
    LET done == TdtLoop(id_to_token, tokens, frame_indices, hop_length,
                        sample_rate, 1,
                        [full_text |-> << >>, result_tokens |-> << >>])
    IN  [text |-> Trim(done.full_text), tokens |-> done.result_tokens]

---------------------------------------------------------------------------
(* The recognizer (Nemotron) *)

\* The mutable fields, with the vocabulary and the chunk size, as one record.
Self ==
    [vocab |-> vocab, encoder_cache |-> encoder_cache, state_1 |-> state_1,
     state_2 |-> state_2, last_token |-> last_token,
     audio_buffer |-> audio_buffer, audio_processed |-> audio_processed,
     chunk_idx |-> chunk_idx, accumulated_tokens |-> accumulated_tokens,
     chunk_size |-> chunk_size]

\* Nemotron::from_memory / from_pretrained: the recognizer as constructed.
Fresh(pieces, csize) ==
    [vocab |-> pieces, encoder_cache |-> ZeroCache, state_1 |-> ZeroState,
     state_2 |-> ZeroState, last_token |-> BLANK_ID,
     audio_buffer |-> [first |-> 0, len |-> 0], audio_processed |-> 0,
     chunk_idx |-> 0, accumulated_tokens |-> << >>, chunk_size |-> csize]

\* Reset that leaves last_token as it is.
ResetKeepsLastToken(r) ==
    [r EXCEPT !.encoder_cache = ZeroCache,
              !.state_1 = ZeroState,
              !.state_2 = ZeroState,
              !.audio_buffer = [first |-> 0, len |-> 0],
              !.audio_processed = 0,
              !.chunk_idx = 0,
              !.accumulated_tokens = << >>]

\* Nemotron::reset.  Clearing the buffer starts a new stream at sample 0.
Reset(r) ==
    [r EXCEPT !.encoder_cache = ZeroCache,
              !.state_1 = ZeroState,
              !.state_2 = ZeroState,
              !.last_token = BLANK_ID,
              !.audio_buffer = [first |-> 0, len |-> 0],
              !.audio_processed = 0,
              !.chunk_idx = 0,
              !.accumulated_tokens = << >>]

\* transcribe_chunk, line 496
KeepSamples(csize) == (PRE_ENCODE_CACHE + csize) * HOP_LENGTH + WIN_LENGTH

\* Truncate that removes all but keep_samples, whatever was processed.
TruncateUncapped(r) ==
    LET keep_samples == KeepSamples(r.chunk_size)
    IN  IF r.audio_buffer.len > keep_samples * 2
        THEN LET remove == r.audio_buffer.len - keep_samples
             IN  [r EXCEPT !.audio_buffer =
                               [first |-> @.first + remove,
                                len   |-> @.len - remove],
                           !.audio_processed = @ - remove]
        ELSE r

\* Truncate that leaves audio_processed as it was.
TruncateKeepsProcessed(r) ==
    LET keep_samples == KeepSamples(r.chunk_size)
    IN  IF r.audio_buffer.len > keep_samples * 2
        THEN LET remove == r.audio_buffer.len - keep_samples
                 actual_remove == Min(remove, r.audio_processed)
             IN  [r EXCEPT !.audio_buffer =
                               [first |-> @.first + actual_remove,
                                len   |-> @.len - actual_remove]]
        ELSE r

\* transcribe_chunk, lines 494-503: the trim at the end of a successful pump.
Truncate(r) ==
    LET keep_samples == KeepSamples(r.chunk_size)
    IN  IF r.audio_buffer.len > keep_samples * 2
        THEN LET remove == r.audio_buffer.len - keep_samples
                 actual_remove == Min(remove, r.audio_processed)
             IN  [r EXCEPT !.audio_buffer =
                               [first |-> @.first + actual_remove,
                                len   |-> @.len - actual_remove],
                           !.audio_processed = @ - actual_remove]
        ELSE r

\* Extend that drops the block.
ExtendDropsBlock(buf, n) == buf

\* transcribe_chunk, line 418: audio_buffer.extend_from_slice of n samples.
Extend(buf, n) == [buf EXCEPT !.len = @ + n]

\* HasChunk that counts all the frames of the buffer as new.
HasChunkIgnoresProcessed(len, processed, csize) ==
    /\ len >= WIN_LENGTH
    /\ MelFrameCount(len) >= csize

\* transcribe_chunk, lines 423-440: whether the call goes on to the encoder.
\* len is the length of the buffer with the new samples appended.
HasChunk(len, processed, csize) ==
    /\ len >= WIN_LENGTH
    /\ Max(MelFrameCount(len) - processed \div HOP_LENGTH, 0) >= csize

\* ExtendTokens that keeps only the new tokens.
ExtendTokensReplaces(tokens, new) == new

\* transcribe_chunk, line 488: accumulated_tokens.extend(&tokens)
ExtendTokens(tokens, new) == tokens \o new

\* The value a call returns and what it did.  ok: Ok or Err; ret: the string of
\* an Ok; encoder_runs, joint_runs: graph invocations made; encoded: encoder
\* invocations that returned; enc_frames: the frames they reported.
Outcome(r, ok, ret, encoder_runs, encoded, enc_frames, joint_runs) ==
    [st |-> r, ok |-> ok, ret |-> ret,
     encoder_runs |-> encoder_runs, encoded |-> encoded,
     enc_frames |-> enc_frames, joint_runs |-> joint_runs]

\* Nemotron::transcribe_chunk with n samples appended.  g is what the graphs
\* do if invoked: the encoder fails or reports g.enc_len frames, and the
\* decoder-joint answers by g.script.
TranscribeChunk(r, n, g) ==
    LET buffered == [r EXCEPT !.audio_buffer = Extend(@, n)]
    IN  IF ~HasChunk(buffered.audio_buffer.len, r.audio_processed, r.chunk_size)
        THEN Outcome(buffered, TRUE, << >>, 0, 0, 0, 0)
        ELSE IF ~g.enc_ok
        THEN Outcome(buffered, FALSE, << >>, 1, 0, 0, 0)
        ELSE
        LET expected_size == PRE_ENCODE_CACHE + r.chunk_size
            mel_chunk == EncoderInput(buffered.audio_buffer, r.audio_processed,
                                      r.chunk_idx, r.chunk_size)
            encoded == [buffered EXCEPT !.encoder_cache =
                            NextCache(@, mel_chunk, expected_size)]
            d == DecodeChunk(encoded, g.enc_len, g.script, 0)
            decoded == [encoded EXCEPT !.last_token = d.last_token,
                                       !.state_1 = d.state_1,
                                       !.state_2 = d.state_2]
        IN  IF ~d.ok
            THEN Outcome(decoded, FALSE, << >>, 1, 1, g.enc_len, d.runs)
            ELSE
            LET advanced ==
                    [decoded EXCEPT
                        !.accumulated_tokens = ExtendTokens(@, d.tokens),
                        !.audio_processed = @ + r.chunk_size * HOP_LENGTH,
                        !.chunk_idx = @ + 1]
            IN  Outcome(Truncate(advanced), TRUE,
                        Delta(r.vocab, d.tokens),
                        1, 1, g.enc_len, d.runs)

\* transcribe_audio, lines 366-393: the mel tensor and the length of the
\* chunk at buffer_idx = k * chunk_size of an audio of n samples.
OfflineInput(n, k, csize) ==
    LET audio == [first |-> 0, len |-> n]
        total_frames == MelFrameCount(n)
        buffer_idx == k * csize
        chunk_end == Min(buffer_idx + csize, total_frames)
        main_len == chunk_end - buffer_idx
        expected_size == PRE_ENCODE_CACHE + csize
        cache_start == buffer_idx - PRE_ENCODE_CACHE
    IN  [features |->
            [i \in 1..expected_size |->
                LET j == i - 1
                IN  IF j < PRE_ENCODE_CACHE
                    THEN IF k > 0 /\ buffer_idx >= PRE_ENCODE_CACHE
                         THEN MelFrame(audio, cache_start + j)
                         ELSE ZeroSlot
                    ELSE IF j - PRE_ENCODE_CACHE < main_len
                         THEN MelFrame(audio, buffer_idx + (j - PRE_ENCODE_CACHE))
                         ELSE ZeroSlot],
         length |-> PRE_ENCODE_CACHE + main_len]

\* The while loop of transcribe_audio from chunk k on.  acc: the recognizer,
\* all_tokens, and the decoder-joint invocations made.  g is what the graphs do.
RECURSIVE AudioLoop(_, _, _, _)
AudioLoop(acc, k, n, g) ==
    LET r == acc.st
        total_frames == MelFrameCount(n)
    IN  IF k * r.chunk_size >= total_frames
        THEN Outcome(r, TRUE, Decode(r.vocab, ValidTokens(acc.all_tokens)),
                     k, k, k * g.enc_len, acc.runs)
        ELSE IF ~g.enc_ok
        THEN Outcome(r, FALSE, << >>, k + 1, k, k * g.enc_len, acc.runs)
        ELSE
        LET inp == OfflineInput(n, k, r.chunk_size)
            encoded == [r EXCEPT !.encoder_cache =
                            NextCache(@, inp.features, inp.length)]
            d == DecodeChunk(encoded, g.enc_len, g.script, acc.runs)
            decoded == [encoded EXCEPT !.last_token = d.last_token,
                                       !.state_1 = d.state_1,
                                       !.state_2 = d.state_2]
        IN  IF ~d.ok
            THEN Outcome(decoded, FALSE, << >>, k + 1, k + 1,
                         (k + 1) * g.enc_len, d.runs)
            ELSE AudioLoop([st |-> decoded,
                            all_tokens |-> acc.all_tokens \o d.tokens,
                            runs |-> d.runs],
                           k + 1, n, g)

\* Nemotron::transcribe_audio on an audio of n samples.
TranscribeAudio(r, n, g) ==
    IF MelFrameCount(n) = 0
    THEN Outcome(Reset(r), TRUE, << >>, 0, 0, 0, 0)
    ELSE AudioLoop([st |-> Reset(r), all_tokens |-> << >>, runs |-> 0],
                   0, n, g)

---------------------------------------------------------------------------
(* Inputs *)

\* A vocabulary of three pieces, the last with a second U+2581: ids from 3 on
\* have no piece.
TestPieces ==
    << <<WordBoundary, "h", "i">>, <<"a">>, <<WordBoundary, WordBoundary, "b">> >>

ChunkSizes == {DEFAULT_CHUNK_SIZE}

\* Lengths of the sample blocks fed to transcribe_chunk: none, one hop, one hop
\* short of a chunk, a chunk, and more than two keep_samples plus a chunk.
BlockLens(csize) ==
    {0, HOP_LENGTH, (csize - 1) * HOP_LENGTH, csize * HOP_LENGTH,
     2 * KeepSamples(csize) + (csize + 1) * HOP_LENGTH}

\* Lengths of the audio given to transcribe_audio.
AudioLens(csize) == {0, csize * HOP_LENGTH}

JointErr == [ok |-> FALSE, argmax |-> 0]
Emit(id) == [ok |-> TRUE, argmax |-> id]

\* What the decoder-joint graph answers, invocation after invocation: never
\* blank; two tokens and a blank; a token and an error.  The logits have
\* VOCAB_SIZE + 1 entries, so argmax is in 0..BLANK_ID.
JointScripts ==
    { <<Emit(0)>>,
      <<Emit(VOCAB_SIZE - 1), Emit(2), Emit(BLANK_ID)>>,
      <<Emit(1), JointErr>> }

\* What the graphs do in one pump: the encoder fails, or reports no frame, or
\* reports MaxEncFrames frames that the decoder-joint answers by a script.
GraphRuns ==
    {[enc_ok |-> FALSE, enc_len |-> 0, script |-> <<JointErr>>],
     [enc_ok |-> TRUE, enc_len |-> 0, script |-> <<JointErr>>]}
        \cup {[enc_ok |-> TRUE, enc_len |-> MaxEncFrames, script |-> s] :
                s \in JointScripts}

---------------------------------------------------------------------------
(* The state machine *)

RecognizerInit ==
    \E csize \in ChunkSizes :
        /\ vocab = TestPieces
        /\ encoder_cache = ZeroCache
        /\ state_1 = ZeroState
        /\ state_2 = ZeroState
        /\ last_token = BLANK_ID
        /\ audio_buffer = [first |-> 0, len |-> 0]
        /\ audio_processed = 0
        /\ chunk_idx = 0
        /\ accumulated_tokens = << >>
        /\ chunk_size = csize
        /\ calls = 0
        /\ last = [op |-> "new", n |-> 0, ok |-> TRUE, ret |-> << >>,
                   encoder_runs |-> 0, encoded |-> 0, enc_frames |-> 0,
                   joint_runs |-> 0]
        /\ pre = Fresh(TestPieces, csize)
        /\ fed = << >>
        /\ clean = TRUE
        /\ deltas = << >>
        /\ tdt = [tokens |-> << >>,
                  result |-> [text |-> << >>, tokens |-> << >>]]

\* No model file given to the loader.
LoaderIdle == model_file = << >> /\ loaded = << >>

\* No signal given to the STFTs.
StftIdle == signal = 0 /\ center_frames = << >> /\ offline_frames = << >>

\* No recording, no subtitle worker, the engine's mutex free; the subtitle
\* service's queue and text empty.
WorkersIdle ==
    /\ engine_lock = << >>
    /\ engine_ops = << >>
    /\ is_streaming = FALSE
    /\ ime_stream = FALSE
    /\ ime_buffer = 0
    /\ ime_pc = [w \in ImeWorkers |-> "idle"]
    /\ sub_pc = "idle"
    /\ cleanup_pc = "idle"
    /\ queue = << >>
    /\ captured = 0
    /\ pushes = 0
    /\ ready = [t \in PushThreads |-> << >>]
    /\ channel = << >>
    /\ aggregated_text = << >>
    /\ sent_text = << >>
    /\ all_deltas = << >>

\* engine.rs, lines 6-9: no engine installed, not loading; no initNative
\* call made yet.
HostInit ==
    /\ IS_LOADING = FALSE
    /\ GLOBAL_ENGINE = << >>
    /\ init_pc = [t \in InitThreads |-> "idle"]
    /\ init_status = [t \in InitThreads |-> "none"]
    /\ installed = << >>
    /\ WorkersIdle

Init == RecognizerInit /\ LoaderIdle /\ StftIdle /\ HostInit

\* The call op(n) returned out: the recognizer becomes out.st.
Return(op, n, out) ==
    /\ vocab' = out.st.vocab
    /\ encoder_cache' = out.st.encoder_cache
    /\ state_1' = out.st.state_1
    /\ state_2' = out.st.state_2
    /\ last_token' = out.st.last_token
    /\ audio_buffer' = out.st.audio_buffer
    /\ audio_processed' = out.st.audio_processed
    /\ chunk_idx' = out.st.chunk_idx
    /\ accumulated_tokens' = out.st.accumulated_tokens
    /\ chunk_size' = out.st.chunk_size
    /\ calls' = calls + 1
    /\ last' = [op |-> op, n |-> n, ok |-> out.ok, ret |-> out.ret,
                encoder_runs |-> out.encoder_runs, encoded |-> out.encoded,
                enc_frames |-> out.enc_frames, joint_runs |-> out.joint_runs]
    /\ pre' = Self
    /\ fed' = IF op = "transcribe_chunk" THEN Append(fed, n) ELSE << >>
    /\ clean' = CASE op = "transcribe_chunk" -> clean /\ out.ok
                  [] op = "transcribe_audio" -> FALSE
                  [] OTHER -> TRUE
    /\ deltas' = CASE op = "transcribe_chunk" ->
                        IF out.ok THEN deltas \o out.ret ELSE deltas
                   [] OTHER -> << >>
    /\ tdt' = tdt
    /\ UNCHANGED <<loaderVars, stftVars, hostVars>>

CallTranscribeChunk ==
    /\ calls < MaxCalls
    /\ \E n \in BlockLens(chunk_size) :
          IF HasChunk(audio_buffer.len + n, audio_processed, chunk_size)
          THEN \E g \in GraphRuns :
                  Return("transcribe_chunk", n, TranscribeChunk(Self, n, g))
          ELSE Return("transcribe_chunk", n,
                      TranscribeChunk(Self, n, CHOOSE g \in GraphRuns : TRUE))

CallTranscribeAudio ==
    /\ calls < MaxCalls
    /\ \E n \in AudioLens(chunk_size) :
          IF MelFrameCount(n) = 0
          THEN Return("transcribe_audio", n,
                      TranscribeAudio(Self, n, CHOOSE g \in GraphRuns : TRUE))
          ELSE \E g \in GraphRuns :
                  Return("transcribe_audio", n, TranscribeAudio(Self, n, g))

CallReset ==
    /\ calls < MaxCalls
    /\ Return("reset", 0, Outcome(Reset(Self), TRUE, << >>, 0, 0, 0, 0))

Next == CallTranscribeChunk \/ CallTranscribeAudio \/ CallReset

Spec == Init /\ [][Next]_vars

---------------------------------------------------------------------------
(* The streaming example: chunk-paced feeding *)

\* examples/streaming.rs, lines 116-141: the audio is fed in blocks of 8960
\* samples, the last one padded with zeros, and three blocks of zeros follow;
\* the `?` after transcribe_chunk ends the run at the first error.
StreamChunk ==
    /\ calls < MaxStreamChunks
    /\ clean
    /\ \E g \in GraphRuns :
          Return("transcribe_chunk", DEFAULT_CHUNK_SIZE * HOP_LENGTH,
                 TranscribeChunk(Self, DEFAULT_CHUNK_SIZE * HOP_LENGTH, g))

StreamSpec == Init /\ [][StreamChunk]_vars

---------------------------------------------------------------------------
(* The detokenizer with timestamps on its own *)

\* A vocabulary as the tests of decoder_tdt.rs build them: a word, digits, the
\* article, a capital, a symbol, a special, <unk>, and a digit after a word
\* boundary.  The id Len(TdtPieces) has no piece.
TdtPieces ==
    << <<WordBoundary, "l", "i", "k", "e">>, <<"1">>, <<"0">>,
       <<WordBoundary, "a">>, <<WordBoundary, "A">>, <<"$">>,
       <<"<", "s", ">">>, Unk, <<WordBoundary, "2">> >>

\* The frame indices of the tests: token i is at frame i (0-based).
FrameIndices(n) == [i \in 1..n |-> i - 1]

\* decode_with_timestamps on the tokens of the last call and one more.
CallDecodeWithTimestamps ==
    /\ Len(tdt.tokens) < MaxTokens
    /\ \E token_id \in 0..Len(TdtPieces) :
          LET tokens == Append(tdt.tokens, token_id)
          IN  tdt' = [tokens |-> tokens,
                      result |-> DecodeWithTimestamps(
                                    TdtPieces, tokens, FrameIndices(Len(tokens)),
                                    HOP_LENGTH, SAMPLE_RATE)]
    /\ UNCHANGED <<vocab, encoder_cache, state_1, state_2, last_token,
                   audio_buffer, audio_processed, chunk_idx,
                   accumulated_tokens, chunk_size, calls, last, pre, fed,
                   clean, deltas, loaderVars, stftVars, hostVars>>

TdtSpec == Init /\ [][CallDecodeWithTimestamps]_vars

---------------------------------------------------------------------------
(* The SentencePiece vocabulary loader *)

\* A byte is a number in 0..255 and a stream a sequence of bytes; positions
\* are 0-based as in the code, so data[pos] of the code is data[pos + 1] here.
\* The streams of this model keep every varint far below 2^64.

InvalidVarint == [ok |-> FALSE, error |-> "Invalid varint"]
NoTokens == [ok |-> FALSE, error |-> "No tokens found in model"]

\* read_varint on the slice data[start..]: at most ten bytes, seven bits
\* each, low group first, up to the first byte without the 0x80 bit.
RECURSIVE VarintLoop(_, _, _, _, _)
VarintLoop(data, start, result, shift, pos) ==
    IF pos < Len(data) - start /\ pos < 10
    THEN LET byte == data[start + pos + 1]
             next == result + (byte % 128) * 2^shift
         IN  IF byte < 128
             THEN [ok |-> TRUE, value |-> next, bytes_read |-> pos + 1]
             ELSE VarintLoop(data, start, next, shift + 7, pos + 1)
    ELSE InvalidVarint

ReadVarint(data, start) == VarintLoop(data, start, 0, 0, 0)

\* String::from_utf8_lossy: an ASCII byte is its own character, a byte that
\* is no valid UTF-8 becomes U+FFFD.  (The streams of this model carry no
\* multi-byte characters.)
FromUtf8Lossy(bytes) ==
    [i \in 1..Len(bytes) |-> IF bytes[i] < 128 THEN bytes[i] ELSE 65533]

\* parse_piece_message: the loop from position pos with the text found so
\* far.  A field-1 string that fits in data replaces the text; every field
\* moves pos by its size; an unknown wire type ends the loop.
RECURSIVE PieceLoop(_, _, _)
PieceLoop(data, pos, piece) ==
    IF pos < Len(data)
    THEN LET header == ReadVarint(data, pos)
         IN  IF ~header.ok THEN InvalidVarint
             ELSE
             LET at == pos + header.bytes_read
                 field_num == header.value \div 8
                 wire_type == header.value % 8
             IN  IF field_num = 1 /\ wire_type = 2
                 THEN LET len == ReadVarint(data, at)
                      IN  IF ~len.ok THEN InvalidVarint
                          ELSE
                          LET from == at + len.bytes_read
                          IN  PieceLoop(data, from + len.value,
                                  IF from + len.value <= Len(data)
                                  THEN FromUtf8Lossy(
                                          SubSeq(data, from + 1,
                                                 from + len.value))
                                  ELSE piece)
                 ELSE IF wire_type = 0
                 THEN LET skipped == ReadVarint(data, at)
                      IN  IF ~skipped.ok THEN InvalidVarint
                          ELSE PieceLoop(data, at + skipped.bytes_read, piece)
                 ELSE IF wire_type = 1
                 THEN PieceLoop(data, at + 8, piece)
                 ELSE IF wire_type = 2
                 THEN LET len == ReadVarint(data, at)
                      IN  IF ~len.ok THEN InvalidVarint
                          ELSE PieceLoop(data,
                                         at + len.bytes_read + len.value,
                                         piece)
                 ELSE IF wire_type = 5
                 THEN PieceLoop(data, at + 4, piece)
                 ELSE [ok |-> TRUE, piece |-> piece]
    ELSE [ok |-> TRUE, piece |-> piece]

ParsePieceMessage(data) == PieceLoop(data, 0, << >>)

\* The end of parse_sentencepiece_model: no piece is an error.
Recovered(pieces) ==
    IF pieces = << >> THEN NoTokens ELSE [ok |-> TRUE, pieces |-> pieces]

\* parse_sentencepiece_model: the loop from position pos with the pieces
\* found so far.  A field-1 record that fits in data is parsed as a piece
\* and pushed if that parse returned Ok; one that does not fit ends the loop.
RECURSIVE ModelLoop(_, _, _)
ModelLoop(data, pos, pieces) ==
    IF pos < Len(data)
    THEN LET header == ReadVarint(data, pos)
         IN  IF ~header.ok THEN InvalidVarint
             ELSE
             LET at == pos + header.bytes_read
                 field_num == header.value \div 8
                 wire_type == header.value % 8
             IN  IF field_num = 1 /\ wire_type = 2
                 THEN LET len == ReadVarint(data, at)
                      IN  IF ~len.ok THEN InvalidVarint
                          ELSE
                          LET from == at + len.bytes_read
                          IN  IF from + len.value > Len(data)
                              THEN Recovered(pieces)
                              ELSE
                              LET parsed == ParsePieceMessage(
                                              SubSeq(data, from + 1,
                                                     from + len.value))
                              IN  ModelLoop(data, from + len.value,
                                      IF parsed.ok
                                      THEN Append(pieces, parsed.piece)
                                      ELSE pieces)
                 ELSE IF wire_type = 0
                 THEN LET skipped == ReadVarint(data, at)
                      IN  IF ~skipped.ok THEN InvalidVarint
                          ELSE ModelLoop(data, at + skipped.bytes_read, pieces)
                 ELSE IF wire_type = 1
                 THEN ModelLoop(data, at + 8, pieces)
                 ELSE IF wire_type = 2
                 THEN LET len == ReadVarint(data, at)
                      IN  IF ~len.ok THEN InvalidVarint
                          ELSE ModelLoop(data,
                                         at + len.bytes_read + len.value,
                                         pieces)
                 ELSE IF wire_type = 5
                 THEN ModelLoop(data, at + 4, pieces)
                 ELSE Recovered(pieces)
    ELSE Recovered(pieces)

ParseSentencepieceModel(data) == ModelLoop(data, 0, << >>)

\* The fields a model file is made of here.  Each is the bytes of one
\* top-level field with what they encode: kind "piece" is a field-1 record
\* and texts the field-1 strings inside it in order; cut says that a varint
\* in it is truncated; "skip" is another field, "stop" one with an unknown
\* wire type, "end" a field the stream ends in the middle of.
Piece(bytes, texts, cut) ==
    [bytes |-> bytes, kind |-> "piece", texts |-> texts, cut |-> cut]
Other(bytes, kind, cut) ==
    [bytes |-> bytes, kind |-> kind, texts |-> << >>, cut |-> cut]

ModelFields ==
    { Piece(<<10, 3, 10, 1, 97>>, << <<97>> >>, FALSE),
      Piece(<<10, 8, 10, 1, 98, 21, 0, 0, 0, 0>>, << <<98>> >>, FALSE),
      Piece(<<10, 6, 10, 1, 97, 10, 1, 98>>, << <<97>>, <<98>> >>, FALSE),
      Piece(<<10, 0>>, << >>, FALSE),
      Piece(<<10, 4, 10, 1, 97, 128>>, << <<97>> >>, TRUE),
      Other(<<16, 5>>, "skip", FALSE),
      Other(<<16, 129, 1>>, "skip", FALSE),
      Other(<<17, 0, 0, 0, 0, 0, 0, 0, 0>>, "skip", FALSE),
      Other(<<18, 1, 7>>, "skip", FALSE),
      Other(<<21, 0, 0, 0, 0>>, "skip", FALSE),
      Other(<<19>>, "stop", FALSE),
      Other(<<128>>, "end", TRUE),
      Other(<<10>>, "end", TRUE) }

\* Files of at most MaxFields fields; only the last may be an "end".
ModelFiles ==
    { f \in UNION { [1..n -> ModelFields] : n \in 0..MaxFields } :
        \A i \in 1..(Len(f) - 1) : f[i].kind # "end" }

RECURSIVE Bytes(_)
Bytes(file) ==
    IF file = << >> THEN << >> ELSE Head(file).bytes \o Bytes(Tail(file))

\* SentencePieceVocab::from_file / parse_vocab_from_bytes on the file.
LoadVocabulary ==
    /\ loaded = << >>
    /\ loaded' = <<ParseSentencepieceModel(Bytes(model_file))>>
    /\ UNCHANGED <<recognizerVars, model_file, stftVars, hostVars>>

VocabInit ==
    /\ RecognizerInit /\ StftIdle /\ HostInit
    /\ model_file \in ModelFiles
    /\ loaded = << >>

VocabSpec == VocabInit /\ [][LoadVocabulary]_vars

---------------------------------------------------------------------------
(* The two STFTs *)

\* Stft with frames of win_length samples.
StftByWindow(n, n_fft, hop_length, win_length) ==
    LET pad_amount == n_fft \div 2
        padded == pad_amount + n + pad_amount
    IN  (padded - win_length) \div hop_length + 1

\* audio::stft: the number of columns of the spectrogram of n samples.
Stft(n, n_fft, hop_length, win_length) ==
    LET pad_amount == n_fft \div 2
        padded == pad_amount + n + pad_amount
    IN  (padded - n_fft) \div hop_length + 1

\* stft_center on the signal.
ComputeStftCenter ==
    /\ center_frames = << >>
    /\ center_frames' = <<StftFrames(signal)>>
    /\ UNCHANGED <<recognizerVars, loaderVars, signal, offline_frames,
                   hostVars>>

\* audio::stft on the signal, with the recognizer's parameters.
ComputeStft ==
    /\ offline_frames = << >>
    /\ offline_frames' = <<Stft(signal, N_FFT, HOP_LENGTH, WIN_LENGTH)>>
    /\ UNCHANGED <<recognizerVars, loaderVars, signal, center_frames,
                   hostVars>>

StftInit ==
    /\ RecognizerInit /\ LoaderIdle /\ HostInit
    /\ signal \in 0..MaxSamples
    /\ center_frames = << >>
    /\ offline_frames = << >>

StftSpec == StftInit /\ [][ComputeStftCenter \/ ComputeStft]_vars

---------------------------------------------------------------------------
(* The host application: loading the engine *)

\* try_claim_loading that succeeds whatever the flag holds.
TryClaimAlways(flag) == [claimed |-> TRUE, flag |-> TRUE]

\* try_claim_loading: compare_exchange(false, true) on IS_LOADING, one atomic
\* step; claimed is its result and flag the value it leaves.
TryClaimLoading(flag) ==
    IF flag = FALSE
    THEN [claimed |-> TRUE, flag |-> TRUE]
    ELSE [claimed |-> FALSE, flag |-> flag]

\* is_engine_loaded.
IsEngineLoaded == GLOBAL_ENGINE # << >>

\* The threads that hold a LoadingGuard: from LoadingGuard::new returning
\* Some to the end of the guard's scope.
Guards == {t \in InitThreads : init_pc[t] \in {"loading", "drop"}}

\* initNative: the call spawns the initializer thread.
InitNative(t) ==
    /\ init_pc[t] = "idle"
    /\ init_pc' = [init_pc EXCEPT ![t] = "spawned"]
    /\ UNCHANGED <<outsideInit, IS_LOADING,
                   GLOBAL_ENGINE, init_status, installed>>

\* notify_status after attach_current_thread: the status reaches the Java
\* object only if the thread could be attached.
Notified(t, attached, msg) ==
    [init_status EXCEPT ![t] = IF attached THEN msg ELSE "detached"]

\* The thread's first test: with an engine installed it reports Ready and
\* returns.
CheckLoaded(t) ==
    /\ init_pc[t] = "spawned"
    /\ IF IsEngineLoaded
       THEN /\ init_pc' = [init_pc EXCEPT ![t] = "done"]
            /\ \E attached \in BOOLEAN :
                  init_status' = Notified(t, attached, "Ready")
       ELSE /\ init_pc' = [init_pc EXCEPT ![t] = "claim"]
            /\ init_status' = init_status
    /\ UNCHANGED <<outsideInit, IS_LOADING,
                   GLOBAL_ENGINE, installed>>

\* LoadingGuard::new: Some(guard) if the claim succeeded; else None, and the
\* thread reports Waiting and goes to poll, or ends if it cannot attach.
LoadingGuardNew(t) ==
    /\ init_pc[t] = "claim"
    /\ LET r == TryClaimLoading(IS_LOADING)
       IN  /\ IS_LOADING' = r.flag
           /\ IF r.claimed
              THEN /\ init_pc' = [init_pc EXCEPT ![t] = "loading"]
                   /\ init_status' = init_status
              ELSE \E attached \in BOOLEAN :
                      /\ init_pc' = [init_pc EXCEPT ![t] =
                                        IF attached THEN "waiting" ELSE "done"]
                      /\ init_status' =
                            Notified(t, attached, "Waiting for model...")
    /\ UNCHANGED <<outsideInit, GLOBAL_ENGINE,
                   installed>>

\* The guarded block: the thread is not attached, or the assets cannot be
\* mapped, or from_memory fails, or the engine is built and set_engine
\* installs it; the status reported last is Error or Ready.
LoadEngine(t) ==
    /\ init_pc[t] = "loading"
    /\ \E outcome \in {"not attached", "assets failed", "load failed",
                       "loaded"} :
          /\ GLOBAL_ENGINE' = IF outcome = "loaded"
                              THEN <<t>>
                              ELSE GLOBAL_ENGINE
          /\ installed' = IF outcome = "loaded"
                          THEN Append(installed, t)
                          ELSE installed
          /\ init_status' =
                Notified(t, outcome # "not attached",
                         IF outcome = "loaded" THEN "Ready" ELSE "Error")
    /\ init_pc' = [init_pc EXCEPT ![t] = "drop"]
    /\ UNCHANGED <<outsideInit, IS_LOADING>>

\* DropGuard that leaves the flag set.
DropGuardKeepsFlag(t) ==
    /\ init_pc[t] = "drop"
    /\ init_pc' = [init_pc EXCEPT ![t] = "done"]
    /\ UNCHANGED <<outsideInit, IS_LOADING,
                   GLOBAL_ENGINE, init_status, installed>>

\* Drop for LoadingGuard at the end of the block: finish_loading.
DropGuard(t) ==
    /\ init_pc[t] = "drop"
    /\ IS_LOADING' = FALSE
    /\ init_pc' = [init_pc EXCEPT ![t] = "done"]
    /\ UNCHANGED <<outsideInit, GLOBAL_ENGINE,
                   init_status, installed>>

\* One turn of the waiter's loop: is_loading, and sleep if it is.
PollLoading(t) ==
    /\ init_pc[t] = "waiting"
    /\ init_pc' = [init_pc EXCEPT ![t] =
                      IF IS_LOADING THEN "waiting" ELSE "check"]
    /\ UNCHANGED <<outsideInit, IS_LOADING,
                   GLOBAL_ENGINE, init_status, installed>>

\* After the loop: Ready is reported if an engine is installed, and nothing
\* otherwise.
CheckReady(t) ==
    /\ init_pc[t] = "check"
    /\ init_pc' = [init_pc EXCEPT ![t] = "done"]
    /\ init_status' = IF IsEngineLoaded
                      THEN [init_status EXCEPT ![t] = "Ready"]
                      ELSE init_status
    /\ UNCHANGED <<outsideInit, IS_LOADING,
                   GLOBAL_ENGINE, installed>>

HostNext ==
    \E t \in InitThreads :
        \/ InitNative(t)
        \/ CheckLoaded(t)
        \/ LoadingGuardNew(t)
        \/ LoadEngine(t)
        \/ DropGuard(t)
        \/ PollLoading(t)
        \/ CheckReady(t)

HostSpec == Init /\ [][HostNext]_vars

\* The steps of initializer thread t once it is spawned.
InitThread(t) ==
    \/ CheckLoaded(t)
    \/ LoadingGuardNew(t)
    \/ LoadEngine(t)
    \/ DropGuard(t)
    \/ PollLoading(t)
    \/ CheckReady(t)

\* Every spawned thread is scheduled again and again, and the guarded block
\* returns.
HostFairSpec == HostSpec /\ \A t \in InitThreads : WF_vars(InitThread(t))

---------------------------------------------------------------------------
(* The host application: the threads that use the engine *)

\* The threads: recording worker w of the input method, the worker of the
\* live-subtitle service, and a cleanupNative call of that service.
Ime(w) == <<"ime", w>>
Subtitle == <<"subtitle">>
Cleanup == <<"cleanup">>

\* Mutex::lock that does not wait for the owner.
CanLockAlways(owner) == TRUE

\* Mutex::lock on the engine returns when the mutex is free.
CanLock(owner) == owner = << >>

\* engine_arc.lock() by thread: it goes from pc `from` to pc `to` holding
\* the mutex.
Lock(thread, pcs, from, to) ==
    /\ pcs = from
    /\ Len(engine_ops) < MaxOps
    /\ CanLock(engine_lock)
    /\ engine_lock' = thread

\* One operation of the recognizer by thread; ok is its result.
Op(thread, op, ok) == Append(engine_ops, [by |-> thread, op |-> op, ok |-> ok])

\* startRecording, under the IME_STATE lock: the capture buffer is cleared,
\* is_streaming set, a worker thread spawned and the input stream built,
\* which may fail and then leaves ImeState.stream as it was.
StartRecording ==
    /\ \E w \in ImeWorkers :
          /\ ime_pc[w] \in {"idle", "done"}
          /\ ime_pc' = [ime_pc EXCEPT ![w] = "spawned"]
    /\ ime_buffer' = 0
    /\ is_streaming' = TRUE
    /\ \E built \in BOOLEAN : ime_stream' = (built \/ ime_stream)
    /\ UNCHANGED <<outsideWorkers, engine_lock, engine_ops, sub_pc,
                   cleanup_pc>>

\* stopRecording, under the IME_STATE lock: the stream is dropped and
\* is_streaming cleared.
StopRecording ==
    /\ ime_stream' = FALSE
    /\ is_streaming' = FALSE
    /\ UNCHANGED <<outsideWorkers, engine_lock, engine_ops, ime_buffer,
                   ime_pc, sub_pc, cleanup_pc>>

\* The capture callback of the input stream appends a block to the buffer.
Capture ==
    /\ ime_stream
    /\ ime_buffer < MaxBuffered
    /\ ime_buffer' = ime_buffer + 1
    /\ UNCHANGED <<outsideWorkers, engine_lock, engine_ops, is_streaming,
                   ime_stream, ime_pc, sub_pc, cleanup_pc>>

\* A step of recording worker w that is not on the engine: get_engine, the
\* loop test on is_streaming, taking a chunk from the capture buffer or
\* sleeping.
ImeStep(w) ==
    /\ \/ /\ ime_pc[w] = "spawned"
          /\ ime_pc' = [ime_pc EXCEPT ![w] =
                           IF IsEngineLoaded THEN "size_lock" ELSE "done"]
          /\ ime_buffer' = ime_buffer
       \/ /\ ime_pc[w] = "loop"
          /\ ime_pc' = [ime_pc EXCEPT ![w] =
                           IF is_streaming THEN "take"
                           ELSE IF IsEngineLoaded THEN "final_lock"
                           ELSE "done"]
          /\ ime_buffer' = ime_buffer
       \/ /\ ime_pc[w] = "take"
          /\ IF ime_buffer >= 1
             THEN /\ ime_buffer' = ime_buffer - 1
                  /\ ime_pc' = [ime_pc EXCEPT ![w] = "chunk_lock"]
             ELSE /\ ime_buffer' = ime_buffer
                  /\ ime_pc' = [ime_pc EXCEPT ![w] = "loop"]
    /\ UNCHANGED <<outsideWorkers, engine_lock, engine_ops, is_streaming,
                   ime_stream, sub_pc, cleanup_pc>>

\* engine_arc.lock() by recording worker w, at each of its four places.
ImeLock(w) ==
    /\ \E at \in {"size", "reset", "chunk", "final"} :
          /\ Lock(Ime(w), ime_pc[w], at \o "_lock", at)
          /\ ime_pc' = [ime_pc EXCEPT ![w] = at]
    /\ UNCHANGED <<outsideWorkers, engine_ops, is_streaming, ime_stream,
                   ime_buffer, sub_pc, cleanup_pc>>

\* An operation of recording worker w under the lock it holds:
\* get_chunk_size, reset, transcribe_chunk and, if that returned Ok,
\* get_transcript before the guard is dropped; after the loop get_transcript
\* for the final text.
ImeOp(w) ==
    /\ \/ /\ ime_pc[w] = "size"
          /\ engine_ops' = Op(Ime(w), "get_chunk_size", TRUE)
          /\ engine_lock' = << >>
          /\ ime_pc' = [ime_pc EXCEPT ![w] = "reset_lock"]
       \/ /\ ime_pc[w] = "reset"
          /\ engine_ops' = Op(Ime(w), "reset", TRUE)
          /\ engine_lock' = << >>
          /\ ime_pc' = [ime_pc EXCEPT ![w] = "loop"]
       \/ /\ ime_pc[w] = "chunk"
          /\ \E ok \in BOOLEAN :
                /\ engine_ops' = Op(Ime(w), "transcribe_chunk", ok)
                /\ engine_lock' = IF ok THEN engine_lock ELSE << >>
                /\ ime_pc' = [ime_pc EXCEPT ![w] =
                                 IF ok THEN "transcript" ELSE "loop"]
       \/ /\ ime_pc[w] = "transcript"
          /\ engine_ops' = Op(Ime(w), "get_transcript", TRUE)
          /\ engine_lock' = << >>
          /\ ime_pc' = [ime_pc EXCEPT ![w] = "loop"]
       \/ /\ ime_pc[w] = "final"
          /\ engine_ops' = Op(Ime(w), "final get_transcript", TRUE)
          /\ engine_lock' = << >>
          /\ ime_pc' = [ime_pc EXCEPT ![w] = "done"]
    /\ UNCHANGED <<outsideWorkers, is_streaming, ime_stream, ime_buffer,
                   sub_pc, cleanup_pc>>

\* The subtitle service's initNative spawns its worker; wait_for_engine
\* returns the engine.
SubtitleInit ==
    /\ sub_pc = "idle"
    /\ IsEngineLoaded
    /\ sub_pc' = "reset_lock"
    /\ UNCHANGED <<outsideWorkers, engine_lock, engine_ops, is_streaming,
                   ime_stream, ime_buffer, ime_pc, cleanup_pc>>

\* engine_arc.lock() by the subtitle worker: before its first reset, for a
\* chunk received from the channel, and for the reset after the channel
\* closed.
SubtitleLock ==
    /\ \E at \in {"reset", "chunk", "end"} :
          /\ Lock(Subtitle, sub_pc, at \o "_lock", at)
          /\ sub_pc' = at
    /\ UNCHANGED <<outsideWorkers, engine_ops, is_streaming, ime_stream,
                   ime_buffer, ime_pc, cleanup_pc>>

\* An operation of the subtitle worker under the lock it holds; after a
\* chunk it waits for the next one or finds the channel closed.
SubtitleOp ==
    /\ \/ /\ sub_pc = "reset"
          /\ engine_ops' = Op(Subtitle, "reset", TRUE)
          /\ sub_pc' = "chunk_lock"
       \/ /\ sub_pc = "chunk"
          /\ \E ok \in BOOLEAN :
                engine_ops' = Op(Subtitle, "transcribe_chunk", ok)
          /\ \E closed \in BOOLEAN :
                sub_pc' = IF closed THEN "end_lock" ELSE "chunk_lock"
       \/ /\ sub_pc = "end"
          /\ engine_ops' = Op(Subtitle, "reset", TRUE)
          /\ sub_pc' = "done"
    /\ engine_lock' = << >>
    /\ UNCHANGED <<outsideWorkers, is_streaming, ime_stream, ime_buffer,
                   ime_pc, cleanup_pc>>

\* cleanupNative of the subtitle service: get_engine, lock, reset.
SubtitleCleanup ==
    /\ \/ /\ cleanup_pc = "idle"
          /\ IsEngineLoaded
          /\ cleanup_pc' = "reset_lock"
          /\ UNCHANGED <<engine_lock, engine_ops>>
       \/ /\ Lock(Cleanup, cleanup_pc, "reset_lock", "reset")
          /\ cleanup_pc' = "reset"
          /\ UNCHANGED engine_ops
       \/ /\ cleanup_pc = "reset"
          /\ engine_ops' = Op(Cleanup, "reset", TRUE)
          /\ engine_lock' = << >>
          /\ cleanup_pc' = "idle"
    /\ UNCHANGED <<outsideWorkers, is_streaming, ime_stream, ime_buffer,
                   ime_pc, sub_pc>>

WorkerNext ==
    \/ StartRecording
    \/ StopRecording
    \/ Capture
    \/ \E w \in ImeWorkers : ImeStep(w) \/ ImeLock(w) \/ ImeOp(w)
    \/ SubtitleInit
    \/ SubtitleLock
    \/ SubtitleOp
    \/ SubtitleCleanup

\* The host after one initNative call has installed the engine.
WorkerInit ==
    /\ RecognizerInit /\ LoaderIdle /\ StftIdle /\ WorkersIdle
    /\ IS_LOADING = FALSE
    /\ GLOBAL_ENGINE = <<1>>
    /\ installed = <<1>>
    /\ init_pc = [t \in InitThreads |-> IF t = 1 THEN "done" ELSE "idle"]
    /\ init_status = [t \in InitThreads |-> IF t = 1 THEN "Ready" ELSE "none"]

WorkerSpec == WorkerInit /\ [][WorkerNext]_vars

---------------------------------------------------------------------------
(* The live-subtitle service: the audio queue *)

\* The queue is a sequence of runs [lo, hi, loud]: the samples lo .. hi-1 in
\* the order they were pushed, all of amplitude 1.0 (loud) or all 0.0.

RECURSIVE QueueLen(_)
QueueLen(q) ==
    IF q = << >> THEN 0 ELSE Head(q).hi - Head(q).lo + QueueLen(Tail(q))

\* n times queue.pop_front().
RECURSIVE PopFront(_, _)
PopFront(q, n) ==
    IF n = 0 \/ q = << >> THEN q
    ELSE LET size == Head(q).hi - Head(q).lo
         IN  IF size <= n THEN PopFront(Tail(q), n - size)
             ELSE <<[Head(q) EXCEPT !.lo = @ + n]>> \o Tail(q)

\* compute_rms(chunk) >= silence_threshold for the first n samples of q: one
\* sample of amplitude 1.0 among at most 16000 gives an RMS above 0.0015.
RECURSIVE FrontLoud(_, _)
FrontLoud(q, n) ==
    IF n = 0 \/ q = << >> THEN FALSE
    ELSE Head(q).loud \/ FrontLoud(Tail(q), n - Min(n, Head(q).hi - Head(q).lo))

\* The loop that cuts chunks of chunk_size samples off the queue and keeps
\* those that are not silent.
RECURSIVE CutChunks(_, _, _)
CutChunks(q, csize, ready_chunks) ==
    IF QueueLen(q) >= csize
    THEN LET chunk == [lo |-> Head(q).lo, hi |-> Head(q).lo + csize]
         IN  CutChunks(PopFront(q, csize), csize,
                       IF FrontLoud(q, csize)
                       THEN Append(ready_chunks, chunk)
                       ELSE ready_chunks)
    ELSE [queue |-> q, ready_chunks |-> ready_chunks]

\* while queue.len() > buffer_limit { queue.pop_front(); }
TrimToLimit(q, buffer_limit) ==
    IF QueueLen(q) > buffer_limit
    THEN PopFront(q, QueueLen(q) - buffer_limit)
    ELSE q

\* The lengths of the blocks pushed: half a chunk, a chunk, and more than
\* the buffer limit.
PushLens == {SUBTITLE_CHUNK_SIZE \div 2, SUBTITLE_CHUNK_SIZE, 120000}

\* The chunks cut and not yet received by the worker's loop: those still to
\* be sent by threads 1..n and those in the channel.
RECURSIVE InFlight(_)
InFlight(n) ==
    IF n = 0 THEN Len(channel) ELSE Len(ready[n]) + InFlight(n - 1)

\* pushAudio up to drop(queue), by thread t with len samples: the block is
\* appended, the queue trimmed to the limit and cut into chunks, all under
\* the queue's lock.
PushAudio(t) ==
    /\ ready[t] = << >>
    /\ pushes < MaxPushes
    /\ InFlight(NumPushThreads) < MaxChunks
    /\ pushes' = pushes + 1
    /\ \E len \in PushLens, loud \in BOOLEAN :
          LET csize == SUBTITLE_CHUNK_SIZE
              extended == Append(queue, [lo |-> captured,
                                         hi |-> captured + len,
                                         loud |-> loud])
              buffer_limit == csize * BUFFER_MULTIPLIER
              cut == CutChunks(TrimToLimit(extended, buffer_limit),
                               csize, << >>)
          IN  /\ captured' = captured + len
              /\ queue' = cut.queue
              /\ ready' = [ready EXCEPT ![t] = cut.ready_chunks]
    /\ UNCHANGED <<outsideQueue, channel>>

\* tx.send(chunk) for the next of the ready chunks of thread t, after the
\* queue's lock is released.
SendChunk(t) ==
    /\ ready[t] # << >>
    /\ channel' = Append(channel, Head(ready[t]))
    /\ ready' = [ready EXCEPT ![t] = Tail(@)]
    /\ UNCHANGED <<outsideQueue, queue, captured, pushes>>

QueueNext == \E t \in PushThreads : PushAudio(t) \/ SendChunk(t)

QueueSpec == Init /\ [][QueueNext]_vars

---------------------------------------------------------------------------
(* The subtitle worker's text (subtitle.rs) *)

\* trim_display_text: the oldest characters beyond MAX_DISPLAY_CHARS are
\* drained.  Characters are one byte long here.
TrimDisplayText(text) ==
    IF Len(text) > MAX_DISPLAY_CHARS
    THEN LET drain == Len(text) - MAX_DISPLAY_CHARS
         IN  SubSeq(text, drain + 1, Len(text))
    ELSE text

\* The tokens of the chunks the worker receives: none, one piece, two pieces,
\* the piece with two boundaries, an id without a piece, and
\* max_symbols_per_step tokens for each of the seven encoder frames of a
\* chunk.
ChunkTokens ==
    {<< >>, <<0>>, <<1>>, <<0, 1>>, <<2>>, <<3>>,
     [i \in 1..(7 * max_symbols_per_step) |-> 0]}

\* One turn of the worker's loop for a received chunk: transcribe_chunk
\* returns Err, or the text of the chunk's tokens, which is trimmed, joined
\* to the aggregated text with a space and sent with onSubtitleText.
SubtitleChunk ==
    /\ Len(all_deltas) < MaxTexts
    /\ \E ok \in BOOLEAN, tokens \in ChunkTokens :
          IF ~ok
          THEN UNCHANGED textVars
          ELSE LET new_text == Delta(TestPieces, tokens)
                   trimmed == Trim(new_text)
               IN  /\ all_deltas' = Append(all_deltas, new_text)
                   /\ IF trimmed = << >>
                      THEN UNCHANGED <<aggregated_text, sent_text>>
                      ELSE /\ aggregated_text' =
                                TrimDisplayText(
                                    (IF aggregated_text # << >>
                                     THEN Append(aggregated_text, Space)
                                     ELSE aggregated_text) \o trimmed)
                           /\ sent_text' = aggregated_text'
    /\ UNCHANGED outsideText

TextNext == SubtitleChunk

TextSpec == Init /\ [][TextNext]_vars

---------------------------------------------------------------------------
(* Runs computed from their inputs *)

\* Graphs that return without emitting: the encoder reports no frame.
QuietRun == [enc_ok |-> TRUE, enc_len |-> 0, script |-> <<JointErr>>]

\* The recognizer after transcribe_chunk on each of blocks in turn.
RECURSIVE RunChunks(_, _)
RunChunks(r, blocks) ==
    IF blocks = << >> THEN r
    ELSE RunChunks(TranscribeChunk(r, Head(blocks), QuietRun).st, Tail(blocks))

\* blocks with its k-th block split into a samples and the rest.
SplitAt(blocks, k, a) ==
    SubSeq(blocks, 1, k - 1) \o <<a, blocks[k] - a>>
        \o SubSeq(blocks, k + 1, Len(blocks))

---------------------------------------------------------------------------
(* Properties *)

ChunkReturned == last.op = "transcribe_chunk"

\* C1: when transcribe_chunk returns an error, the encoder cache, both
\* predictor states, last_token, the token stream, audio_processed and
\* chunk_idx are what they were before the call.
C1_FailedCallDiscarded ==
    (ChunkReturned /\ ~last.ok) =>
        /\ encoder_cache = pre.encoder_cache
        /\ state_1 = pre.state_1
        /\ state_2 = pre.state_2
        /\ last_token = pre.last_token
        /\ accumulated_tokens = pre.accumulated_tokens
        /\ audio_processed = pre.audio_processed
        /\ chunk_idx = pre.chunk_idx

\* The places where a block of c samples is split.
SplitPoints(c) ==
    {a \in {HOP_LENGTH, (chunk_size - 1) * HOP_LENGTH, chunk_size * HOP_LENGTH} :
        a < c}

\* C2: from a reset recognizer, with blocks that are multiples of HOP_LENGTH
\* and no failing graph, splitting one block in two at a multiple of
\* HOP_LENGTH leaves the sequence of encoder invocations (the chunks pumped,
\* their mel frames and lengths), and with it the tokens decoded, the same.
C2_SplitInvariance ==
    (clean /\ \A i \in 1..Len(fed) : fed[i] % HOP_LENGTH = 0) =>
        \A k \in 1..Len(fed) : \A a \in SplitPoints(fed[k]) :
            RunChunks(Fresh(vocab, chunk_size), SplitAt(fed, k, a)).encoder_cache
                = encoder_cache

\* C3: after any transcribe_chunk return the audio buffer holds at most
\* 2 * keep_samples samples.
C3_BufferBounded ==
    ChunkReturned => audio_buffer.len <= 2 * KeepSamples(chunk_size)

\* The samples the last transcribe_chunk drained from the front of the buffer.
Drained ==
    IF ChunkReturned THEN audio_buffer.first - pre.audio_buffer.first ELSE 0

\* C4: when transcribe_chunk drains a prefix of the buffer, the mel frame
\* with index audio_processed / HOP_LENGTH is computed from the same stream
\* samples and the same padding after the drain as before it.
C4_TruncationKeepsFrame ==
    Drained > 0 =>
        MelFrame(audio_buffer, audio_processed \div HOP_LENGTH)
            = MelFrame([first |-> pre.audio_buffer.first,
                        len   |-> audio_buffer.len + Drained],
                       (audio_processed + Drained) \div HOP_LENGTH)

\* C5: after reset every field equals that of a recognizer constructed with
\* the same vocabulary and chunk size, and a second reset changes nothing.
C5_ResetEqualsFresh ==
    last.op = "reset" =>
        /\ Self = Fresh(pre.vocab, pre.chunk_size)
        /\ Reset(Self) = Self

\* C5 witness: reset of a recognizer with a replaced cache, advanced predictor
\* state, tokens, buffered audio and a failed call or offline pass behind it.
C5_ResetOfUsedRecognizer ==
    /\ last.op = "reset"
    /\ pre.encoder_cache # ZeroCache
    /\ pre.state_1 # ZeroState
    /\ pre.last_token # BLANK_ID
    /\ pre.audio_buffer.len > 0
    /\ pre.accumulated_tokens # << >>

\* The mel frames of a buffer of len samples (frame count of a centered STFT)
\* that lie beyond the audio_processed / HOP_LENGTH consumed ones.
NewFrames(len, processed) ==
    1 + (len + N_FFT - WIN_LENGTH) \div HOP_LENGTH - processed \div HOP_LENGTH

\* The buffer with the block of the last call appended.
Appended == [pre.audio_buffer EXCEPT !.len = @ + last.n]

\* The last call found too little audio for a chunk.
Starved ==
    \/ Appended.len < WIN_LENGTH
    \/ NewFrames(Appended.len, pre.audio_processed) < pre.chunk_size

\* C6, as claimed: transcribe_chunk with an empty slice returns the empty
\* string, runs no graph and leaves every field unchanged, in every state.
C6_EmptyIsNoOp ==
    (ChunkReturned /\ last.n = 0) =>
        /\ last.ok
        /\ last.ret = << >>
        /\ last.encoder_runs = 0
        /\ Self = pre

\* C6, amended: transcribe_chunk with an empty slice returns the empty string,
\* runs no graph and leaves every field unchanged whenever the buffer holds
\* fewer than WIN_LENGTH samples or fewer than chunk_size unconsumed frames;
\* on a backlog of chunk_size unconsumed frames it invokes the encoder once.
C6_EmptyCallPumpsOnlyBacklog ==
    (ChunkReturned /\ last.n = 0) =>
        IF Starved
        THEN /\ last.ok
             /\ last.ret = << >>
             /\ last.encoder_runs = 0
             /\ last.joint_runs = 0
             /\ Self = pre
        ELSE last.encoder_runs = 1

\* C6 witness: an empty call on a recognizer that has consumed a chunk and
\* holds audio, but not a chunk of unconsumed frames.
C6_EmptyCallAfterPump ==
    /\ ChunkReturned /\ last.n = 0 /\ Starved
    /\ pre.chunk_idx > 0
    /\ pre.audio_buffer.len >= WIN_LENGTH
    /\ pre.accumulated_tokens # << >>

\* C7: a call that finds fewer than WIN_LENGTH samples, or fewer than
\* chunk_size new frames, returns the empty string, runs no graph and changes
\* nothing but the audio buffer, to which the block is appended.
C7_BackPressure ==
    (ChunkReturned /\ Starved) =>
        /\ last.ok
        /\ last.ret = << >>
        /\ last.encoder_runs = 0
        /\ last.joint_runs = 0
        /\ Self = [pre EXCEPT !.audio_buffer = Appended]

\* C7 witness: a block appended after a pump, short of the next chunk, with
\* more than WIN_LENGTH samples buffered.
C7_BlockHeldBack ==
    /\ ChunkReturned /\ Starved
    /\ last.n > 0
    /\ pre.chunk_idx > 0
    /\ audio_buffer.len >= WIN_LENGTH
    /\ audio_buffer.len > pre.audio_buffer.len

\* The zero flush that ends a stream: three chunks of chunk_size * HOP_LENGTH
\* samples.
FlushBlocks(csize) ==
    <<csize * HOP_LENGTH, csize * HOP_LENGTH, csize * HOP_LENGTH>>

\* The encoder invocations of a stream that feeds n samples and then flushes.
StreamedInvocations(n) ==
    RunChunks(Fresh(vocab, chunk_size),
              <<n>> \o FlushBlocks(chunk_size)).encoder_cache

\* C8, as claimed: the encoder invocations of transcribe_audio over an audio
\* are those of the stream that feeds the audio and flushes: as many, and each
\* with the same frames in the same slots and the same length argument.
C8_StreamingEqualsOffline ==
    (last.op = "transcribe_audio" /\ last.ok /\ last.n > 0) =>
        /\ Len(encoder_cache) = Len(StreamedInvocations(last.n))
        /\ \A k \in 1..Len(encoder_cache) :
                encoder_cache[k] = StreamedInvocations(last.n)[k]

\* C9, as claimed: when transcribe_audio returns Ok(s), get_transcript()
\* returns s, and chunk_idx and audio_processed count the chunks consumed.
C9_OfflineLeavesTranscript ==
    (last.op = "transcribe_audio" /\ last.ok) =>
        /\ GetTranscript(Self) = last.ret
        /\ chunk_idx = last.encoder_runs
        /\ audio_processed = last.encoder_runs * chunk_size * HOP_LENGTH

\* C10: every id in accumulated_tokens is below VOCAB_SIZE.
C10_TokensInVocab ==
    \A i \in 1..Len(accumulated_tokens) : accumulated_tokens[i] < VOCAB_SIZE

\* C10 witness: a pump whose decoder-joint answered with the largest id, then
\* another id, then blank, has stored the largest id of the vocabulary.
C10_LargestIdStored ==
    /\ ChunkReturned /\ last.ok
    /\ last.joint_runs >= 3
    /\ Len(accumulated_tokens) > Len(pre.accumulated_tokens)
    /\ \E i \in 1..Len(accumulated_tokens) :
            accumulated_tokens[i] = VOCAB_SIZE - 1

\* The tokens the last transcribe_chunk appended to accumulated_tokens.
NewTokens ==
    SubSeq(accumulated_tokens, Len(pre.accumulated_tokens) + 1,
           Len(accumulated_tokens))

\* C11: the deltas returned since the last reset, concatenated and with the
\* leading whitespace trimmed, are get_transcript().
C11_DeltasMakeTranscript ==
    TrimStart(deltas) = GetTranscript(Self)

\* C11 witness: a second non-empty delta; the transcript starts with a word
\* boundary that the trim removes.
C11_TwoDeltas ==
    /\ ChunkReturned /\ last.ok
    /\ last.ret # << >>
    /\ Len(deltas) > Len(last.ret)
    /\ Head(deltas) = Space
    /\ GetTranscript(Self) # << >>

\* C12: a transcribe_chunk call, whether it pumps, holds back or fails, keeps
\* the tokens accumulated before it as a prefix of accumulated_tokens.
C12_TokensNeverRegress ==
    ChunkReturned =>
        /\ Len(accumulated_tokens) >= Len(pre.accumulated_tokens)
        /\ SubSeq(accumulated_tokens, 1, Len(pre.accumulated_tokens))
                = pre.accumulated_tokens

\* C12 witness: tokens appended to a stream that already held some.
C12_TokensAppended ==
    /\ ChunkReturned /\ last.ok
    /\ pre.accumulated_tokens # << >>
    /\ NewTokens # << >>

\* C13: a call that ran decode_chunk on enc_frames encoder frames made at most
\* max_symbols_per_step decoder-joint invocations per frame and appended at
\* most that many tokens per frame; when every invocation was non-blank (as
\* many tokens as invocations) it appended exactly that many per frame.
C13_SymbolCap ==
    ChunkReturned =>
        /\ last.joint_runs <= max_symbols_per_step * last.enc_frames
        /\ Len(NewTokens) <= max_symbols_per_step * last.enc_frames
        /\ (last.ok /\ Len(NewTokens) = last.joint_runs) =>
                Len(NewTokens) = max_symbols_per_step * last.enc_frames

\* C13 witness: a pump whose decoder-joint never answered blank.
C13_CapOnEveryFrame ==
    /\ ChunkReturned /\ last.ok
    /\ last.enc_frames > 1
    /\ Len(NewTokens) = last.joint_runs
    /\ Len(NewTokens) = max_symbols_per_step * last.enc_frames

\* The predictor state after the targets of the invocations that emitted
\* tokens: the first ran on last_token, each later one on the token before.
StateAfter(state, token, tokens) ==
    IF tokens = << >> THEN state
    ELSE state \o <<token>> \o SubSeq(tokens, 1, Len(tokens) - 1)

\* C14: after a pump, last_token is the last token it emitted and both
\* predictor states are those returned by the invocations that emitted its
\* tokens, in order; blank invocations changed neither, and at most one blank
\* was answered per encoder frame.
C14_PredictorDiscipline ==
    (ChunkReturned /\ last.ok) =>
        /\ last_token = IF NewTokens = << >> THEN pre.last_token
                        ELSE NewTokens[Len(NewTokens)]
        /\ state_1 = StateAfter(pre.state_1, pre.last_token, NewTokens)
        /\ state_2 = StateAfter(pre.state_2, pre.last_token, NewTokens)
        /\ last.joint_runs - Len(NewTokens) <= last.enc_frames

\* C14 witness: a pump with tokens and blanks, on a predictor that earlier
\* emissions had advanced.
C14_TokensAndBlanks ==
    /\ ChunkReturned /\ last.ok
    /\ pre.state_1 # ZeroState
    /\ NewTokens # << >>
    /\ last.joint_runs = Len(NewTokens) + last.enc_frames

\* C15: a transcribe_chunk call whose encoder invocation failed leaves the
\* encoder cache as it was; one whose encoder invocation returned has replaced
\* it by a cache computed from the previous one, also when the call then fails
\* in the decoder.
C15_CacheReplacedOrKept ==
    ChunkReturned =>
        IF last.encoded = 0
        THEN encoder_cache = pre.encoder_cache
        ELSE /\ Len(encoder_cache) = Len(pre.encoder_cache) + 1
             /\ SubSeq(encoder_cache, 1, Len(pre.encoder_cache))
                    = pre.encoder_cache

\* C15 witness: a failed encoder invocation on a cache that an earlier pump
\* had replaced.
C15_EncoderFailed ==
    /\ ChunkReturned /\ ~last.ok
    /\ last.encoder_runs = 1 /\ last.encoded = 0
    /\ pre.encoder_cache # ZeroCache
    /\ encoder_cache = pre.encoder_cache

\* The position in the stream up to which audio has been consumed: the
\* samples drained from the buffer so far plus audio_processed.
StreamPosition(r) == r.audio_buffer.first + r.audio_processed

\* C20: a transcribe_chunk call invokes the encoder at most once; chunk_idx
\* advances by 0 or 1, and the stream position by chunk_size * HOP_LENGTH
\* when chunk_idx advanced and by 0 otherwise.
C20_OnePumpPerCall ==
    ChunkReturned =>
        /\ last.encoder_runs <= 1
        /\ chunk_idx - pre.chunk_idx \in {0, 1}
        /\ StreamPosition(Self) - StreamPosition(pre)
                = (chunk_idx - pre.chunk_idx) * chunk_size * HOP_LENGTH

\* C20 witness: a pump on a backlog of more than two chunks that drained the
\* buffer.
C20_PumpWithDrain ==
    /\ ChunkReturned /\ last.ok
    /\ chunk_idx = pre.chunk_idx + 1
    /\ Drained > 0
    /\ NewFrames(audio_buffer.len, audio_processed) >= chunk_size

\* C16: when every call is given chunk_size * HOP_LENGTH samples, every call
\* invokes the encoder exactly once, and a call that returns Ok leaves fewer
\* than chunk_size unconsumed frames and has consumed all the audio fed.
C16_PacedCallsPump ==
    ChunkReturned =>
        /\ last.encoder_runs = 1
        /\ last.ok =>
              /\ chunk_idx = Len(fed)
              /\ NewFrames(audio_buffer.len, audio_processed) < chunk_size
              /\ StreamPosition(Self) = Len(fed) * chunk_size * HOP_LENGTH

\* C16 witness: a pump on a buffer that an earlier pump had drained, itself
\* draining the buffer again.
C16_PumpAcrossDrains ==
    /\ ChunkReturned /\ last.ok
    /\ pre.audio_buffer.first > 0
    /\ Drained > 0
    /\ Len(fed) >= 5

\* The pieces of the ids that have one, as they stand in the vocabulary.
RECURSIVE RawPieces(_, _)
RawPieces(pieces, ids) ==
    IF ids = << >> THEN << >>
    ELSE (IF Head(ids) < Len(pieces) THEN pieces[Head(ids) + 1] ELSE << >>)
            \o RawPieces(pieces, Tail(ids))

\* A piece with only a leading U+2581 replaced by a space.
LeadingOnly(piece) ==
    IF piece # << >> /\ Head(piece) = WordBoundary
    THEN <<Space>> \o Tail(piece)
    ELSE piece

RECURSIVE LeadingOnlyPieces(_, _)
LeadingOnlyPieces(pieces, ids) ==
    IF ids = << >> THEN << >>
    ELSE (IF Head(ids) < Len(pieces)
          THEN LeadingOnly(pieces[Head(ids) + 1])
          ELSE << >>) \o LeadingOnlyPieces(pieces, Tail(ids))

\* C19, as claimed: in the delta and in the transcript only the leading U+2581
\* of a piece is replaced by a space and every other character is verbatim;
\* the transcript is that text without its leading word-boundary space.
C19_LeadingBoundaryReplaced ==
    LET text == LeadingOnlyPieces(vocab, ValidTokens(accumulated_tokens))
    IN  /\ GetTranscript(Self)
            = IF text # << >> /\ Head(text) = Space THEN Tail(text) ELSE text
        /\ (ChunkReturned /\ last.ok) =>
                last.ret = LeadingOnlyPieces(vocab, ValidTokens(NewTokens))

\* text is raw with every U+2581 replaced by a space.
BoundariesReplaced(raw, text) ==
    /\ Len(text) = Len(raw)
    /\ \A i \in 1..Len(raw) :
            text[i] = IF raw[i] = WordBoundary THEN Space ELSE raw[i]

\* C19, amended: in the delta and in the transcript every U+2581 of every
\* piece is replaced by a space and every other character is verbatim; the
\* transcript is that text without any of its leading spaces.
C19_EveryBoundaryReplaced ==
    LET raw == RawPieces(vocab, ValidTokens(accumulated_tokens))
        text == GetTranscript(Self)
        cut == Len(raw) - Len(text)
    IN  /\ cut >= 0
        /\ \A i \in 1..cut : raw[i] \in {WordBoundary, Space}
        /\ text # << >> => Head(text) # Space
        /\ BoundariesReplaced(SubSeq(raw, cut + 1, Len(raw)), text)
        /\ (ChunkReturned /\ last.ok) =>
                BoundariesReplaced(RawPieces(vocab, ValidTokens(NewTokens)),
                                   last.ret)

\* C19 witness: a transcript that lost two leading spaces and holds the piece
\* with two U+2581 a second time.
C19_InnerBoundary ==
    LET raw == RawPieces(vocab, ValidTokens(accumulated_tokens))
    IN  /\ ChunkReturned /\ last.ok
        /\ Len(raw) = Len(GetTranscript(Self)) + 2
        /\ \E i \in 3..Len(raw) : raw[i] = WordBoundary /\ raw[i - 1] = WordBoundary

\* The input positions of decode_with_timestamps whose token has a piece that
\* is not a <...> other than <unk>, in order.
KeptPositions ==
    SelectSeq([i \in 1..Len(tdt.tokens) |-> i],
              LAMBDA i :
                /\ tdt.tokens[i] < Len(TdtPieces)
                /\ LET piece == TdtPieces[tdt.tokens[i] + 1]
                   IN  ~(/\ Head(piece) = "<"
                         /\ piece[Len(piece)] = ">"
                         /\ piece # Unk))

\* The texts of the first k entries of the result, concatenated.
RECURSIVE TextBefore(_)
TextBefore(k) ==
    IF k = 0 THEN << >>
    ELSE TextBefore(k - 1) \o tdt.result.tokens[k].text

\* str ends with exactly k alphabetic characters.
EndsWithLetters(str, k) ==
    /\ k <= Len(str)
    /\ \A j \in (Len(str) - k + 1)..Len(str) : str[j] \in Letters
    /\ k < Len(str) => str[Len(str) - k] \notin Letters

\* C17: an entry whose display text does not start with a space and is all
\* digits is that text behind one space exactly when the text before it ends
\* with more than one letter, or with one letter that is 'a'; every other
\* entry is its display text.
C17_DigitSpacing ==
    Len(tdt.result.tokens) = Len(KeptPositions) =>
        \A k \in 1..Len(tdt.result.tokens) :
            LET piece == TdtPieces[tdt.tokens[KeptPositions[k]] + 1]
                display == [i \in 1..Len(piece) |->
                              IF piece[i] = WordBoundary THEN Space ELSE piece[i]]
                before == TextBefore(k - 1)
                spaced == /\ Head(display) # Space
                          /\ \A i \in 1..Len(display) : display[i] \in Digits
                          /\ \/ \E n \in 2..Len(before) : EndsWithLetters(before, n)
                             \/ /\ EndsWithLetters(before, 1)
                                /\ before[Len(before)] = "a"
            IN  tdt.result.tokens[k].text
                    = IF spaced THEN <<Space>> \o display ELSE display

\* C17 witness: ' like', '1', '0', '0' gives 'like 100', with only the first
\* digit spaced.
C17_Like100 ==
    /\ tdt.tokens = <<0, 1, 2, 2>>
    /\ tdt.result.text = <<"l", "i", "k", "e", Space, "1", "0", "0">>
    /\ tdt.result.tokens[2].text = <<Space, "1">>
    /\ tdt.result.tokens[3].text = <<"0">>

\* C18: the entries of the result are, in input order, one for each token
\* that has a piece other than a <...> that is not <unk>; the text is the
\* entries' texts, concatenated and trimmed.
C18_SpecialsDropped ==
    /\ Len(tdt.result.tokens) = Len(KeptPositions)
    /\ \A k \in 1..Len(KeptPositions) :
            LET i == KeptPositions[k]
                piece == TdtPieces[tdt.tokens[i] + 1]
                entry == tdt.result.tokens[k]
            IN  /\ entry.start = (i - 1) * encoder_stride * HOP_LENGTH
                /\ Len(entry.text) \in {Len(piece), Len(piece) + 1}
                /\ entry.text[Len(entry.text)]
                        = IF piece[Len(piece)] = WordBoundary
                          THEN Space ELSE piece[Len(piece)]
    /\ tdt.result.text = Trim(TextBefore(Len(tdt.result.tokens)))

\* C18 witness: a special, <unk>, an id without a piece and a word: <unk> and
\* the word have entries.
C18_UnkKept ==
    /\ tdt.tokens = <<6, 7, Len(TdtPieces), 0>>
    /\ Len(tdt.result.tokens) = 2
    /\ tdt.result.tokens[1].text = Unk
    /\ tdt.result.text = Unk \o <<Space, "l", "i", "k", "e">>

\* The last transcribe_chunk call ran the encoder and the encoder returned.
Pumped == ChunkReturned /\ last.encoded = 1

\* C21: a transcribe_chunk call shortens the buffer only at the end of a
\* successful pump that left more than 2 * keep_samples in it; it then drains
\* min(len - keep_samples, audio_processed) samples from the front and from
\* audio_processed, which stays at 0 or above, and keeps at least keep_samples;
\* any other call only appends its block.
C21_TruncationRule ==
    ChunkReturned =>
        LET keep_samples == (PRE_ENCODE_CACHE + chunk_size) * HOP_LENGTH + WIN_LENGTH
            len == pre.audio_buffer.len + last.n
            advanced == chunk_idx = pre.chunk_idx + 1
            processed == pre.audio_processed + chunk_size * HOP_LENGTH
        IN  IF last.ok /\ advanced /\ len > 2 * keep_samples
            THEN /\ Drained = Min(len - keep_samples, processed)
                 /\ audio_buffer.len = len - Drained
                 /\ audio_processed = processed - Drained
                 /\ audio_processed >= 0
                 /\ audio_buffer.len >= keep_samples
            ELSE /\ Drained = 0
                 /\ audio_buffer.len = len

\* C21 witness: a drain cut short by audio_processed, and one that was not.
C21_DrainCapped ==
    /\ ChunkReturned /\ Drained > 0
    /\ audio_processed = 0
    /\ audio_buffer.len > KeepSamples(chunk_size)

\* The tensor the last pump gave the encoder, slot by slot, and the frame
\* index its main chunk starts at.
PumpInput ==
    EncoderInput(Appended, pre.audio_processed, pre.chunk_idx, pre.chunk_size)
MainStart == pre.audio_processed \div HOP_LENGTH

\* C22: a pump builds PRE_ENCODE_CACHE + chunk_size slots and passes that
\* number as the length.  For chunk_idx = 0 the first PRE_ENCODE_CACHE slots
\* are zero and the others hold frames 0 .. chunk_size - 1.  For chunk_idx > 0
\* the frames cache_start .. main_start - 1 fill the slots from cache_offset
\* to PRE_ENCODE_CACHE - 1, the slots before are zero, and the frames
\* main_start .. main_start + chunk_size - 1 fill all the others.
C22_EncoderInputLayout ==
    Pumped =>
        LET expected_size == PRE_ENCODE_CACHE + chunk_size
            cache_start == Max(0, MainStart - PRE_ENCODE_CACHE)
            cache_offset == PRE_ENCODE_CACHE - (MainStart - cache_start)
            given == encoder_cache[Len(encoder_cache)]
            input == PumpInput
        IN  /\ Len(input) = expected_size
            /\ given = [features |-> Features(input), length |-> expected_size]
            /\ \A j \in 0..(expected_size - 1) :
                  input[j + 1] =
                    IF j >= PRE_ENCODE_CACHE
                    THEN MelFrame(Appended,
                                  (IF pre.chunk_idx = 0 THEN 0 ELSE MainStart)
                                      + (j - PRE_ENCODE_CACHE))
                    ELSE IF pre.chunk_idx > 0 /\ j >= cache_offset
                    THEN MelFrame(Appended, cache_start + (j - cache_offset))
                    ELSE ZeroSlot

\* C22 witness: a pump with chunk_idx > 0 and a full pre-encode context.
C22_PumpWithContext ==
    /\ Pumped
    /\ pre.chunk_idx > 0
    /\ MainStart >= PRE_ENCODE_CACHE
    /\ ~PumpInput[1].zero

\* C23: every pump with chunk_idx > 0 has all PRE_ENCODE_CACHE pre-encode
\* slots filled, with the frames just before its main chunk; no drain leaves
\* them zero.
C23_ContextKept ==
    (Pumped /\ pre.chunk_idx > 0) =>
        /\ MainStart >= PRE_ENCODE_CACHE
        /\ \A j \in 0..(PRE_ENCODE_CACHE - 1) :
              /\ ~PumpInput[j + 1].zero
              /\ PumpInput[j + 1] =
                    MelFrame(Appended, MainStart - PRE_ENCODE_CACHE + j)

\* The last main frame the last pump fed, as a frame index of its buffer.
LastMainFrame ==
    (IF pre.chunk_idx = 0 THEN 0 ELSE MainStart) + pre.chunk_size - 1

\* C24: the analysis window of every main frame a pump feeds lies inside the
\* audio received so far (no right zero-padding), and audio_processed is at
\* most the buffer length after a pump.
C24_ConsumedFramesFinal ==
    Pumped =>
        /\ \A j \in PRE_ENCODE_CACHE..(PRE_ENCODE_CACHE + pre.chunk_size - 1) :
              PumpInput[j + 1].padR = 0
        /\ LastMainFrame * HOP_LENGTH - N_FFT \div 2 + WIN_LENGTH <= Appended.len
        /\ (last.ok => audio_processed <= audio_buffer.len)

\* C25: between calls, last_token is BLANK_ID when accumulated_tokens is
\* empty and its last id otherwise, and the predictor state is the one the
\* joint returned for exactly the accumulated tokens.
C25_LastTokenTracksStream ==
    /\ last_token = IF accumulated_tokens = << >>
                    THEN BLANK_ID
                    ELSE accumulated_tokens[Len(accumulated_tokens)]
    /\ state_1 = StateAfter(ZeroState, BLANK_ID, accumulated_tokens)
    /\ state_2 = StateAfter(ZeroState, BLANK_ID, accumulated_tokens)

\* C26: a pump that runs with chunk_idx = 0 finds the encoder cache and the
\* predictor state zero, last_token = BLANK_ID and audio_processed = 0; a
\* pump with chunk_idx > 0 does not leave all pre-encode slots zero.
C26_FirstChunkIsPristine ==
    (ChunkReturned /\ last.encoder_runs = 1) =>
        IF pre.chunk_idx = 0
        THEN /\ pre.encoder_cache = ZeroCache
             /\ pre.state_1 = ZeroState
             /\ pre.state_2 = ZeroState
             /\ pre.last_token = BLANK_ID
             /\ pre.audio_processed = 0
        ELSE \E j \in 1..PRE_ENCODE_CACHE : ~PumpInput[j].zero

\* The fields of a file up to its first field with an unknown wire type,
\* and the field-1 records among them.
RECURSIVE Scanned(_)
Scanned(file) ==
    IF file = << >> \/ Head(file).kind = "stop" THEN << >>
    ELSE <<Head(file)>> \o Scanned(Tail(file))
PieceRecords(file) == SelectSeq(Scanned(file), LAMBDA f : f.kind = "piece")

\* C27: the vocabulary has one piece per top-level field-1 record, in the
\* order of the stream and with none left out, and the text of each is the
\* first field-1 string inside its record; the scan skips other fields and
\* stops at an unknown wire type.
C27_PiecesInOrder ==
    (loaded # << >> /\ loaded[1].ok) =>
        LET records == PieceRecords(model_file)
        IN  loaded[1].pieces =
                [k \in 1..Len(records) |->
                    IF records[k].texts = << >> THEN << >>
                    ELSE records[k].texts[1]]

\* C28: loading returns a Tokenizer error when a varint is truncated, at top
\* level or inside a piece record, and when no piece is recovered; it returns
\* a vocabulary only for a stream with no truncated varint and at least one
\* piece.
C28_LoaderErrors ==
    loaded # << >> =>
        /\ loaded[1].ok <=>
              /\ \A i \in 1..Len(Scanned(model_file)) :
                    ~Scanned(model_file)[i].cut
              /\ PieceRecords(model_file) # << >>
        /\ ~loaded[1].ok => loaded[1] \in {InvalidVarint, NoTokens}

\* C29 as stated: for a signal of n samples both STFTs produce
\* 1 + (padded_len - WIN_LENGTH) / HOP_LENGTH frames, padded_len = n + N_FFT.
C29_BothByWindow ==
    LET frames == 1 + (signal + N_FFT - WIN_LENGTH) \div HOP_LENGTH
    IN  /\ center_frames # << >> => center_frames[1] = frames
        /\ offline_frames # << >> => offline_frames[1] = frames

\* C29: for a signal of n samples stft_center produces
\* 1 + (padded_len - WIN_LENGTH) / HOP_LENGTH frames and audio::stft produces
\* 1 + (padded_len - N_FFT) / HOP_LENGTH frames, padded_len = n + N_FFT; the
\* two counts are equal if n mod HOP_LENGTH is below
\* HOP_LENGTH - (N_FFT - WIN_LENGTH) = 48, and stft_center has one frame more
\* otherwise.
C29_FrameCounts ==
    LET padded_len == signal + N_FFT
    IN  /\ center_frames # << >> =>
              center_frames[1] = 1 + (padded_len - WIN_LENGTH) \div HOP_LENGTH
        /\ offline_frames # << >> =>
              offline_frames[1] = 1 + (padded_len - N_FFT) \div HOP_LENGTH
        /\ (center_frames # << >> /\ offline_frames # << >>) =>
              center_frames[1] - offline_frames[1] =
                  IF signal % HOP_LENGTH < HOP_LENGTH - (N_FFT - WIN_LENGTH)
                  THEN 0 ELSE 1

\* C29 witness: both STFTs ran on a signal and their frame counts differ.
C29_CountsDiffer ==
    /\ center_frames # << >> /\ offline_frames # << >>
    /\ center_frames[1] = offline_frames[1] + 1

\* C30: at most one LoadingGuard exists at a time, and is_loading() is true
\* exactly while one exists, so that after the guard is dropped the flag is
\* clear and the next claim succeeds.
C30_LoadingExclusive ==
    /\ Cardinality(Guards) <= 1
    /\ IS_LOADING <=> Guards # {}

\* C30 witness: a guard was dropped after a failed load and another thread
\* has claimed the loading right since.
C30_ClaimAfterDrop ==
    \E t, u \in InitThreads :
        /\ init_pc[t] = "done"
        /\ GLOBAL_ENGINE = << >>
        /\ init_pc[u] = "loading"
        /\ IS_LOADING

\* C31: set_engine installs an engine at most once, so that an engine in
\* GLOBAL_ENGINE is never replaced by another one.
C31_InstalledOnce == Len(installed) <= 1

\* C32: a thread polling is_loading() leaves its loop.
C32_WaitersProgress ==
    \A t \in InitThreads :
        (init_pc[t] = "waiting") ~> (init_pc[t] # "waiting")

\* C32 witness: a waiter has left its loop after the loader failed.
C32_WaiterLeft ==
    \E t \in InitThreads :
        /\ init_pc[t] = "check"
        /\ init_status[t] = "Waiting for model..."
        /\ GLOBAL_ENGINE = << >>
        /\ \E u \in InitThreads : init_status[u] = "Error"

\* C33: an initializer thread that attached has reported Ready or Error by
\* the time it ends, also a waiter whose loader failed.
C33_FinalStatus ==
    \A t \in InitThreads :
        (init_pc[t] = "done" /\ init_status[t] # "detached") =>
            init_status[t] \in {"Ready", "Error"}

\* The threads that are inside an operation of the recognizer.
InOperation ==
    {Ime(w) : w \in {v \in ImeWorkers :
                        ime_pc[v] \in {"size", "reset", "chunk", "transcript",
                                       "final"}}}
        \cup (IF sub_pc \in {"reset", "chunk", "end"} THEN {Subtitle} ELSE {})
        \cup (IF cleanup_pc = "reset" THEN {Cleanup} ELSE {})

\* C34: a thread inside reset, transcribe_chunk, get_transcript or
\* get_chunk_size holds the engine's mutex, so no two are inside at once; and
\* a recording worker's transcribe_chunk that returned Ok is followed by its
\* get_transcript with no operation of another thread in between, the worker
\* holding the mutex until then.
C34_AccessSerialized ==
    /\ \A thread \in InOperation : engine_lock = thread
    /\ Cardinality(InOperation) <= 1
    /\ \A i \in 1..Len(engine_ops) :
          LET o == engine_ops[i]
          IN  (o.op = "transcribe_chunk" /\ o.ok /\ o.by[1] = "ime") =>
                 IF i < Len(engine_ops)
                 THEN engine_ops[i + 1] =
                          [by |-> o.by, op |-> "get_transcript", ok |-> TRUE]
                 ELSE engine_lock = o.by /\ ime_pc[o.by[2]] = "transcript"

\* C34 witness: a recording worker read the transcript after its chunk
\* while the subtitle worker was waiting for the mutex.
C34_TranscriptUnderSameLock ==
    /\ Len(engine_ops) >= 2
    /\ engine_ops[Len(engine_ops)].op = "get_transcript"
    /\ engine_ops[Len(engine_ops) - 1].op = "transcribe_chunk"
    /\ sub_pc = "reset_lock"

\* The recording workers that are in their loop on the capture buffer.
Consuming ==
    {w \in ImeWorkers :
        ime_pc[w] \in {"loop", "take", "chunk_lock", "chunk", "transcript"}}

\* C35: at most one recording worker consumes the capture buffer at a time,
\* also after a stop followed at once by a start.
C35_SingleWorker == Cardinality(Consuming) <= 1

\* C36: between the reset of a recording worker and its final
\* get_transcript no other thread resets the recognizer or feeds it audio.
C36_SessionIsolated ==
    \A j \in 1..Len(engine_ops) :
        engine_ops[j].op = "final get_transcript" =>
            \A i \in 1..(j - 1) :
                (engine_ops[i].by = engine_ops[j].by
                    /\ engine_ops[i].op = "reset") =>
                    \A k \in (i + 1)..(j - 1) :
                        engine_ops[k].by # engine_ops[j].by =>
                            engine_ops[k].op \notin {"reset",
                                                     "transcribe_chunk"}

\* C37: when no pushAudio call is inside the queue's lock the queue holds
\* fewer than chunk_size samples; every chunk cut has chunk_size samples and
\* is not silent; and the chunks reach the worker in the order of capture,
\* whichever threads call pushAudio.
C37_QueueDiscipline ==
    /\ QueueLen(queue) < SUBTITLE_CHUNK_SIZE
    /\ \A i \in 1..Len(channel) :
          channel[i].hi - channel[i].lo = SUBTITLE_CHUNK_SIZE
    /\ \A i, j \in 1..Len(channel) :
          i < j => channel[i].lo < channel[j].lo

\* The deltas of the chunks processed, joined.
RECURSIVE Flatten(_)
Flatten(texts) ==
    IF texts = << >> THEN << >> ELSE Head(texts) \o Flatten(Tail(texts))

IsSuffix(s, t) ==
    /\ Len(s) <= Len(t)
    /\ SubSeq(t, Len(t) - Len(s) + 1, Len(t)) = s

\* C38: the text sent with onSubtitleText has at most MAX_DISPLAY_CHARS
\* characters and is what is left of the joined deltas of the chunks
\* processed after its oldest characters are removed: no space is put between
\* the pieces of two chunks.
C38_TextMatchesTranscript ==
    /\ Len(sent_text) <= MAX_DISPLAY_CHARS
    /\ IsSuffix(sent_text, Flatten(all_deltas))

====
